---- MODULE Spec2Model ----
(***************************************************************************)
(* The parallel job execution engine of catkin_tools:                      *)
(*   - execute_jobs, the dependency-aware scheduler (execution/executor.py)*)
(*   - async_job, the per-job staged runtime        (execution/executor.py)*)
(*   - JobServer, the GNU-make token pipe           (execution/jobs.py)    *)
(* Job ids are the numbers 1..NJobs in the order of the input list, which  *)
(* is topologically sorted; NJobs + 1 is a job id that is not in the input.*)
(* Stage labels are the positions 1..len(stages) of the stages in a job;   *)
(* label 0 is the scheduler's own 'activate' stage.                        *)
(***************************************************************************)
EXTENDS Integers, Sequences, FiniteSets, TLC

\* ----------------------------------------------------------------- bounds
NJobs == 3
MaxStages == 2
MaxJobs == 2
MaxChildTokens == 1
MaxFd == 12
MaxChunks == 2

Jobs == 1..NJobs
Unknown == NJobs + 1

VARIABLES
    \* inputs of execute_jobs and the Job objects
    jobs,                   \* the input list of execute_jobs (job ids)
    deps,                   \* Job.deps: jid -> set of job ids
    stages,                 \* Job.stages: jid -> sequence of "cmd" | "fun"
    job_cof,                \* Job.continue_on_failure of every job
    continue_on_failure,    \* execute_jobs parameter
    continue_without_deps,  \* execute_jobs parameter
    \* JobServer singleton
    max_jobs,               \* JobServer.max_jobs
    max_load,               \* TRUE iff JobServer.max_load is not None
    max_mem,                \* TRUE iff JobServer.max_mem is not None
    gnu_make_supported,     \* JobServer._gnu_make_supported after initialize()
    format_exc,             \* the text traceback.format_exc() gives for a stage that raises
    keep_time,              \* whether ExecutionEvent.time is kept: it is in the
                            \* specifications where the Queue has a consumer
    job_pipe,               \* number of token bytes readable on job_pipe
    pipe_fds,               \* the descriptors <<r, w>> that os.pipe() returned
    child_tokens,           \* tokens held by the make children of a job
    \* execute_jobs locals
    pc,                     \* position of the execute_jobs coroutine
    pending_jobs,
    queued_jobs,
    active_jobs,
    completed_jobs,
    abandoned_jobs,
    result,                 \* <<value>> once execute_jobs has returned
    \* async_job coroutines
    jst,                    \* position of the coroutine of every job
    jk,                     \* index of the stage the coroutine is at
    all_stages_succeeded,   \* async_job local, per job
    stdout_buffer,          \* the buffers of the object that `logger` of
    stderr_buffer,          \* async_job is bound to (IOBufferLogger, or the
    interleaved_buffer,     \* IOBufferProtocol of the spawned process), per job
    opc,                    \* ConsoleStatusController.run: position
    taken,                  \* items it has got from the Queue, per producer
    active_stages,          \* run local: job id -> label (-1: no entry)
    start_times,            \* run local: the job ids with an entry
    status,                 \* run local: the lists of the last JOB_STATUS
    linked_devel,           \* package -> the files of its linked devel space
    devel_manifest,         \* package -> its devel_manifest.txt
    dest_files,             \* merged devel space: file -> package its symlink
                            \* points into (0: no such symlink)
    dest_collisions,        \* devel_collisions.txt: file -> count (0: no row)
    last_call,              \* package -> the last call made for it
    dot_catkin_file,        \* the .catkin file of the merged devel space
    dot_catkin_file_lock,   \* the thread that holds the lock (0: nobody)
    package_source_abs,     \* thread -> the argument of its call
    tpc,                    \* thread -> position in append_dot_catkin_file
    dot_catkin_paths,       \* thread -> local of append_dot_catkin_file
    jresult,                \* <<jid, all_stages_succeeded>> once async_job returned
    \* a thread that calls the class methods of JobServer
    cpc,                    \* its position: "idle", or "reading" in _acquire
    ctokens,                \* the tokens it has acquired and not released
    cret,                   \* what its last call returned or raised
    cargs,                  \* the list its last gnu_make_args() returned
    \* the event queue: every event put so far by execute_jobs, in order,
    \* and for every job the events put so far by its async_job, in order
    event_queue,
    stage_events

vars == <<jobs, deps, stages, job_cof, continue_on_failure, continue_without_deps,
          max_jobs, max_load, max_mem, gnu_make_supported, format_exc,
          pipe_fds, job_pipe, child_tokens, cpc, ctokens, cret, cargs,
          pc, pending_jobs, queued_jobs, active_jobs, completed_jobs,
          abandoned_jobs, result,
          jst, jk, all_stages_succeeded, jresult, event_queue, stage_events,
          stdout_buffer, stderr_buffer, interleaved_buffer,
          keep_time, opc, taken, active_stages, start_times, status,
          linked_devel, devel_manifest, dest_files, dest_collisions,
          last_call, dot_catkin_file, dot_catkin_file_lock,
          package_source_abs, tpc, dot_catkin_paths>>

inputs == <<jobs, deps, stages, job_cof, continue_on_failure, continue_without_deps,
            max_jobs, max_load, max_mem, gnu_make_supported, pipe_fds,
            format_exc, keep_time>>

client == <<cpc, ctokens, cret, cargs>>

buffers == <<stdout_buffer, stderr_buffer, interleaved_buffer>>

observer == <<opc, taken, active_stages, start_times, status>>

symlinks == <<linked_devel, devel_manifest, dest_files, dest_collisions,
              last_call>>

dot_catkin == <<dot_catkin_file, dot_catkin_file_lock, package_source_abs,
                tpc, dot_catkin_paths>>

devel == <<symlinks, dot_catkin>>

\* no package is linked
NoPackages ==
    /\ linked_devel = <<>>
    /\ devel_manifest = <<>>
    /\ dest_files = <<>>
    /\ dest_collisions = <<>>
    /\ last_call = <<>>

\* no thread registers a package
NoThreads ==
    /\ dot_catkin_file = [exists |-> FALSE, text |-> <<>>]
    /\ dot_catkin_file_lock = 0
    /\ package_source_abs = <<>>
    /\ tpc = <<>>
    /\ dot_catkin_paths = <<>>

\* no function stage works on the devel space
NoDevelSpace == NoPackages /\ NoThreads

\* ---------------------------------------------------------------- helpers
SeqToSet(s) == {s[i] : i \in DOMAIN s}

\* a sequence from its last element to its first
Reverse(w) == [i \in 1..Len(w) |-> w[Len(w) + 1 - i]]

\* faulty variant of split: the values that satisfy cond come out last first
splitReversed(values, cond) ==
    <<Reverse(SelectSeq(values, LAMBDA v : cond[v])),
      SelectSeq(values, LAMBDA v : ~cond[v])>>

\* executor.py split(): the values that satisfy cond, then those that do not,
\* each in the order of the input; cond maps each value to its truth value
split(values, cond) ==
    <<SelectSeq(values, LAMBDA v : cond[v]),
      SelectSeq(values, LAMBDA v : ~cond[v])>>

\* the empty dict
EmptyDict == [x \in {} |-> FALSE]

\* d[k] = v
DictPut(d, k, v) == [x \in (DOMAIN d) \cup {k} |-> IF x = k THEN v ELSE d[x]]

\* faulty variant of AllValues: any(d.values())
AnyValue(d) == \E x \in DOMAIN d : d[x]

\* all(d.values())
AllValues(d) == \A x \in DOMAIN d : d[x]

\* ----------------------------------------------------------------- events
NoSnap == [pending |-> <<>>, queued |-> <<>>, active |-> {},
           completed |-> EmptyDict, abandoned |-> <<>>]

\* the number of puts on the Queue so far, of the scheduler and of the
\* runtimes of the jobs
RECURSIVE PutsBy(_)
PutsBy(js) ==
    IF js = <<>> THEN 0 ELSE Len(stage_events[Head(js)]) + PutsBy(Tail(js))

Puts == Len(event_queue) + PutsBy(jobs)

\* ExecutionEvent(event_id, **kwargs); absent payload keys hold a default.
\* time orders the events as the Queue does: the events of one step are put
\* by one producer, and keep their order in its sequence.
ExecutionEvent(eid, jid) ==
    [event_id |-> eid, job_id |-> jid, time |-> IF keep_time THEN Puts ELSE 0,
     label |-> -1, succeeded |-> FALSE,
     retcode |-> -1, data |-> <<>>, reason |-> "", ref |-> -1, direct |-> -1,
     dep_ids |-> {}, snap |-> NoSnap, stdout |-> <<>>, stderr |-> <<>>,
     interleaved |-> <<>>]

StartedJob(jid) == ExecutionEvent("STARTED_JOB", jid)
QueuedJob(jid) == ExecutionEvent("QUEUED_JOB", jid)
FinishedJob(jid, ok) ==
    [ExecutionEvent("FINISHED_JOB", jid) EXCEPT !.succeeded = ok]
StartedStage(jid, lbl) ==
    [ExecutionEvent("STARTED_STAGE", jid) EXCEPT !.label = lbl]
FinishedStage(jid, lbl, ok, rc, out, err, inter) ==
    [ExecutionEvent("FINISHED_STAGE", jid) EXCEPT
        !.label = lbl, !.succeeded = ok, !.retcode = rc,
        !.stdout = out, !.stderr = err, !.interleaved = inter]
StdoutEvent(jid, lbl, text) ==
    [ExecutionEvent("STDOUT", jid) EXCEPT !.label = lbl, !.data = text]
StderrEvent(jid, lbl, text) ==
    [ExecutionEvent("STDERR", jid) EXCEPT !.label = lbl, !.data = text]
\* faulty variant of AbandonedMissing: dep_ids lists every dependency
AbandonedMissingAllDeps(jid, ids) ==
    [ExecutionEvent("ABANDONED_JOB", jid) EXCEPT
        !.reason = "MISSING_DEPS", !.dep_ids = deps[jid]]
AbandonedMissing(jid, ids) ==
    [ExecutionEvent("ABANDONED_JOB", jid) EXCEPT
        !.reason = "MISSING_DEPS", !.dep_ids = ids]
AbandonedPeer(jid, peer) ==
    [ExecutionEvent("ABANDONED_JOB", jid) EXCEPT
        !.reason = "PEER_FAILED", !.ref = peer]
\* faulty variant of AbandonedDep: the two job ids are exchanged
AbandonedDepSwapped(jid, direct_dep, dep) ==
    [ExecutionEvent("ABANDONED_JOB", jid) EXCEPT
        !.reason = "DEP_FAILED", !.direct = dep, !.ref = direct_dep]

AbandonedDep(jid, direct_dep, dep) ==
    [ExecutionEvent("ABANDONED_JOB", jid) EXCEPT
        !.reason = "DEP_FAILED", !.direct = direct_dep, !.ref = dep]
JobStatus(p, q, a, c, ab) ==
    [ExecutionEvent("JOB_STATUS", -1) EXCEPT
        !.snap = [pending |-> p, queued |-> q, active |-> a,
                  completed |-> c, abandoned |-> ab]]

\* -------------------------------------------------------------- JobServer
\* JobServer._running_jobs: max_jobs minus the bytes readable on the pipe
running_jobs == max_jobs - job_pipe

\* faulty variant of _load_ok: the load is tested even when no job runs
_load_okAlways(loadHigh) == ~(max_load /\ loadHigh)

\* JobServer._load_ok, for a load reading above (loadHigh) or below max_load
_load_ok(loadHigh) == ~(max_load /\ running_jobs > 0 /\ loadHigh)

\* JobServer._mem_ok, for a memory reading above (memHigh) or below max_mem
_mem_ok(memHigh) == ~(max_mem /\ running_jobs > 0 /\ memHigh)

\* JobServer._conditions_ok
_conditions_ok(loadHigh, memHigh) == _load_ok(loadHigh) /\ _mem_ok(memHigh)

\* the condition of JobServer.try_acquire under which it reads the pipe
try_acquire_ok(loadHigh, memHigh) ==
    _conditions_ok(loadHigh, memHigh) /\ running_jobs < max_jobs

\* faulty variant of InitialTokens: one token too many is written
InitialTokensOffByOne(n) == n + 1

\* JobServer.__init__: the pipe is filled with max_jobs tokens
InitialTokens(n) == n

\* faulty variant of _release: no byte is written
_releaseNothing(pipe) == pipe

\* JobServer._release: one byte written to the pipe
_release(pipe) == pipe + 1

\* faulty variant of _acquire: the byte stays in the pipe
_acquireNothing(pipe) == pipe

\* JobServer._acquire: one byte read from the pipe
_acquire(pipe) == pipe - 1

\* ------------------------------------------------------------------- Job
\* faulty variant of all_deps_completed: any() instead of all()
any_dep_completed(j, completed) == \E d \in deps[j] : d \in DOMAIN completed

\* Job.all_deps_completed
all_deps_completed(j, completed) == \A d \in deps[j] : d \in DOMAIN completed

\* --------------------------------------------------------------- inputs
StageKinds == {"cmd", "fun"}

StageLists == UNION {[1..n -> StageKinds] : n \in 0..MaxStages}

JobLists == {[i \in 1..n |-> i] : n \in 0..NJobs}

\* dependencies of a topologically sorted list: earlier jobs, or an id
\* that is not in the list
DepsOf(js) ==
    {d \in [SeqToSet(js) -> SUBSET (Jobs \cup {Unknown})] :
        \A j \in SeqToSet(js) : d[j] \subseteq ({Unknown} \cup 1..(j - 1))}

\* every job of a run has the same stage list
UniformStages(js, lists) == {[j \in SeqToSet(js) |-> sl] : sl \in lists}

ShortLists == {sl \in StageLists : Len(sl) <= 1}

LongLists == StageLists \ ShortLists

\* The inputs: any dependency graph over jobs of at most one stage, which
\* have the default continue_on_failure of Job.__init__; or a single job
\* of several stages, with either value of the flag.
Init ==
    /\ jobs \in JobLists
    /\ \/ /\ deps \in DepsOf(jobs)
          /\ stages \in UniformStages(jobs, ShortLists)
          /\ job_cof = [j \in SeqToSet(jobs) |-> TRUE]
       \/ /\ Len(jobs) = 1
          /\ deps \in DepsOf(jobs)
          /\ stages \in UniformStages(jobs, LongLists)
          /\ job_cof \in {[j \in SeqToSet(jobs) |-> b] : b \in BOOLEAN}
    /\ continue_on_failure \in BOOLEAN
    /\ continue_without_deps \in BOOLEAN
    /\ max_jobs \in 1..MaxJobs
    /\ max_load \in BOOLEAN
    /\ max_mem \in BOOLEAN
    /\ gnu_make_supported \in BOOLEAN
    /\ job_pipe = (IF gnu_make_supported THEN InitialTokens(max_jobs) ELSE 0)
    /\ pipe_fds = <<3, 4>>
    /\ format_exc = <<"E", "\n">>
    /\ cpc = "idle"
    /\ ctokens = 0
    /\ cret = ""
    /\ cargs = <<>>
    /\ child_tokens = [j \in SeqToSet(jobs) |-> 0]
    /\ pc = "start"
    /\ pending_jobs = <<>>
    /\ queued_jobs = <<>>
    /\ active_jobs = {}
    /\ completed_jobs = EmptyDict
    /\ abandoned_jobs = <<>>
    /\ result = <<>>
    /\ jst = [j \in SeqToSet(jobs) |-> "idle"]
    /\ jk = [j \in SeqToSet(jobs) |-> 0]
    /\ all_stages_succeeded = [j \in SeqToSet(jobs) |-> TRUE]
    /\ jresult = [j \in SeqToSet(jobs) |-> <<>>]
    /\ event_queue = <<>>
    /\ stage_events = [j \in SeqToSet(jobs) |-> <<>>]
    /\ stdout_buffer = [j \in SeqToSet(jobs) |-> <<>>]
    /\ stderr_buffer = [j \in SeqToSet(jobs) |-> <<>>]
    /\ interleaved_buffer = [j \in SeqToSet(jobs) |-> <<>>]
    /\ keep_time = FALSE
    /\ opc = "run"
    /\ taken = [s \in {-1, 0} \cup SeqToSet(jobs) |-> 0]
    /\ active_stages = [j \in SeqToSet(jobs) |-> -1]
    /\ start_times = {}
    /\ status = NoSnap
    /\ NoDevelSpace

\* -------------------------------------------------------------------- io
\* A chunk of output is the sequence of its characters.
Whitespace == {" ", "\n", "\t"}

\* str.rstrip()
RECURSIVE rstrip(_)
rstrip(data) ==
    IF data # <<>> /\ data[Len(data)] \in Whitespace
    THEN rstrip(SubSeq(data, 1, Len(data) - 1))
    ELSE data

\* IOBufferLogger.out / err: buffer += data.rstrip() + '\n'
LoggerAppend(buffer, data) == buffer \o rstrip(data) \o <<"\n">>

\* faulty variant of ProtocolAppend: the chunk is put in front
ProtocolPrepend(buffer, data) == data \o buffer

\* IOBufferProtocol.on_stdout_received / on_stderr_received: buffer += data
ProtocolAppend(buffer, data) == buffer \o data

\* the chunks that a child process writes
Chunks == {<<"a">>, <<"b", "\n">>}

\* the texts of the traceback of a stage that raises: the message of the
\* exception ends the text and may itself end with white space
Tracebacks == {<<"E", "\n">>, <<"E", " ", "\n">>}

\* ------------------------------------------------------------- async_job
\* faulty variant of LoopTop: STARTED_STAGE is not put
LoopTopNoStarted(j, k, ok) ==
    IF k > Len(stages[j]) THEN
        [st |-> "returned", k |-> k, res |-> ok, evs |-> <<>>]
    ELSE IF job_cof[j] /\ ~ok THEN
        [st |-> "returned", k |-> k, res |-> ok, evs |-> <<>>]
    ELSE
        [st |-> "running", k |-> k, res |-> ok, evs |-> <<>>]

\* async_job from the top of the loop body for stage k: the loop ends, or
\* the job is aborted, or STARTED_STAGE is put and the stage is awaited
LoopTop(j, k, ok) ==
    IF k > Len(stages[j]) THEN
        [st |-> "returned", k |-> k, res |-> ok, evs |-> <<>>]
    ELSE IF job_cof[j] /\ ~ok THEN
        [st |-> "returned", k |-> k, res |-> ok, evs |-> <<>>]
    ELSE
        [st |-> "running", k |-> k, res |-> ok, evs |-> <<StartedStage(j, k)>>]

ApplyLoopTop(j, r, evs) ==
    /\ jst' = [jst EXCEPT ![j] = r.st]
    /\ jk' = [jk EXCEPT ![j] = r.k]
    /\ all_stages_succeeded' = [all_stages_succeeded EXCEPT ![j] = r.res]
    /\ jresult' = [jresult EXCEPT ![j] =
                      IF r.st = "returned" THEN <<j, r.res>> ELSE @]
    /\ stage_events' = [stage_events EXCEPT ![j] = @ \o evs \o r.evs]
    \* line 51: a new IOBufferLogger, with empty buffers, for the next stage
    /\ stdout_buffer' = [stdout_buffer EXCEPT ![j] = <<>>]
    /\ stderr_buffer' = [stderr_buffer EXCEPT ![j] = <<>>]
    /\ interleaved_buffer' = [interleaved_buffer EXCEPT ![j] = <<>>]

\* the task of a job starts to run
JobBegin(j) ==
    /\ pc = "wait"
    /\ jst[j] = "created"
    /\ ApplyLoopTop(j, LoopTop(j, 1, TRUE), <<>>)
    /\ UNCHANGED <<inputs, observer, devel, client, job_pipe, child_tokens, pc, pending_jobs,
                   queued_jobs, active_jobs, completed_jobs, abandoned_jobs,
                   result, event_queue>>

\* faulty variant of UpdateSuccess: the earlier stages are forgotten
UpdateSuccessLast(all_ok, stage_ok) == stage_ok

\* line 95: the success tracker after a stage
UpdateSuccess(all_ok, stage_ok) == all_ok /\ stage_ok

\* what can happen to a dispatched stage
Outcomes(kind) ==
    IF kind = "cmd" THEN {"ok", "fail", "exc_spawn", "exc_wait"}
    ELSE {"ok", "fail", "exc_fun"}

\* the retcode async_job ends up with
Retcode(outcome) ==
    CASE outcome = "ok" -> 0
      [] outcome = "fail" -> 2
      [] OTHER -> 1

\* the awaited stage of job j ends with the given outcome
StageDone(j, outcome) ==
    /\ pc = "wait"
    /\ jst[j] = "running"
    /\ child_tokens[j] = 0
    /\ outcome \in Outcomes(stages[j][jk[j]])
    \* a process that could not be spawned has written nothing
    /\ outcome = "exc_spawn" => interleaved_buffer[j] = <<>>
    /\ IF outcome = "exc_wait" THEN
           \* logger is the IOBufferProtocol by now: it has no err()
           /\ jst' = [jst EXCEPT ![j] = "raised"]
           /\ UNCHANGED <<jk, all_stages_succeeded, jresult, stage_events,
                          buffers>>
       ELSE
           LET rc == Retcode(outcome)
               stage_succeeded == (rc = 0)
               ok == UpdateSuccess(all_stages_succeeded[j], stage_succeeded)
               raised == outcome \in {"exc_spawn", "exc_fun"}
               \* lines 74, 86: logger.err(traceback.format_exc())
               logged == IF raised
                         THEN <<StderrEvent(j, jk[j], format_exc)>> ELSE <<>>
               err == IF raised
                      THEN LoggerAppend(stderr_buffer[j], format_exc)
                      ELSE stderr_buffer[j]
               inter == IF raised
                        THEN LoggerAppend(interleaved_buffer[j], format_exc)
                        ELSE interleaved_buffer[j]
               fin == <<FinishedStage(j, jk[j], stage_succeeded, rc,
                                      stdout_buffer[j], err, inter)>>
           IN ApplyLoopTop(j, LoopTop(j, jk[j] + 1, ok), logged \o fin)
    /\ UNCHANGED <<inputs, observer, devel, client, job_pipe, child_tokens, pc, pending_jobs,
                   queued_jobs, active_jobs, completed_jobs, abandoned_jobs,
                   result, event_queue>>

\* a make child of a running command stage takes a token from the pipe
ChildTake(j) ==
    /\ jst[j] = "running"
    /\ stages[j][jk[j]] = "cmd"
    /\ job_pipe > 0
    /\ child_tokens[j] < MaxChildTokens
    /\ job_pipe' = job_pipe - 1
    /\ child_tokens' = [child_tokens EXCEPT ![j] = @ + 1]
    /\ UNCHANGED <<inputs, observer, devel, client, buffers, pc, pending_jobs, queued_jobs, active_jobs,
                   completed_jobs, abandoned_jobs, result, jst, jk,
                   all_stages_succeeded, jresult, event_queue, stage_events>>

\* a make child gives its token back
ChildReturn(j) ==
    /\ child_tokens[j] > 0
    /\ job_pipe' = job_pipe + 1
    /\ child_tokens' = [child_tokens EXCEPT ![j] = @ - 1]
    /\ UNCHANGED <<inputs, observer, devel, client, buffers, pc, pending_jobs, queued_jobs, active_jobs,
                   completed_jobs, abandoned_jobs, result, jst, jk,
                   all_stages_succeeded, jresult, event_queue, stage_events>>

\* ---------------------------------------------------------- execute_jobs
jobsUnchanged ==
    UNCHANGED <<jst, jk, all_stages_succeeded, jresult, stage_events, buffers>>

\* lines 126-157: the job map, the MISSING_DEPS abandonments and the first
\* partition into queued and pending
Initialize ==
    /\ pc = "start"
    /\ IF ~gnu_make_supported THEN
           \* line 140: JobServer.max_jobs() reads max_jobs of the singleton,
           \* which initialize() has left None: AttributeError
           /\ pc' = "error"
           /\ UNCHANGED <<abandoned_jobs, event_queue, queued_jobs,
                          pending_jobs>>
       ELSE
           LET job_map == SeqToSet(jobs)
               sp1 == split(jobs, [j \in job_map |->
                                     \A d \in deps[j] : d \in job_map])
               new_abandoned_jobs == sp1[2]
               sp2 == split(sp1[1], [j \in job_map |-> deps[j] = {}])
           IN /\ abandoned_jobs' = new_abandoned_jobs
              /\ event_queue' = event_queue \o
                    [i \in 1..Len(new_abandoned_jobs) |->
                        AbandonedMissing(new_abandoned_jobs[i],
                                         deps[new_abandoned_jobs[i]] \ job_map)]
              /\ queued_jobs' = sp2[1]
              /\ pending_jobs' = sp2[2]
              /\ pc' = "loop"
    /\ UNCHANGED <<inputs, observer, devel, client, job_pipe, child_tokens, active_jobs,
                   completed_jobs, result>>
    /\ jobsUnchanged

\* line 160: the test of the main loop
LoopCondition ==
    Cardinality(active_jobs) + Len(queued_jobs) + Len(pending_jobs) > 0

\* faulty variant of AfterAdmit: the body of the for loop is entered anyway
AfterAdmitAlways == "status"

\* the position after the admit loop: the for loop over as_completed() of
\* the active jobs, which ends at once when there is none
AfterAdmit == IF active_jobs = {} THEN "loop" ELSE "status"

\* line 160, the loop goes on
LoopEnter ==
    /\ pc = "loop"
    /\ LoopCondition
    /\ pc' = "admit"
    /\ UNCHANGED <<inputs, observer, devel, client, job_pipe, child_tokens, pending_jobs, queued_jobs,
                   active_jobs, completed_jobs, abandoned_jobs, result,
                   event_queue>>
    /\ jobsUnchanged

\* lines 266-275: the loop is left, the last JOB_STATUS, the result
Finish ==
    /\ pc = "loop"
    /\ ~LoopCondition
    /\ event_queue' = Append(event_queue,
            JobStatus(pending_jobs, queued_jobs, active_jobs, completed_jobs,
                      abandoned_jobs))
    /\ result' = <<AllValues(completed_jobs)>>
    /\ pc' = "done"
    /\ UNCHANGED <<inputs, observer, devel, client, job_pipe, child_tokens, pending_jobs, queued_jobs,
                   active_jobs, completed_jobs, abandoned_jobs>>
    /\ jobsUnchanged

\* faulty variant of AdmitCheck: a token is asked for whatever the queue
AdmitCheckAnyQueue ==
    /\ pc = "admit"
    /\ \E loadHigh, memHigh \in BOOLEAN :
          pc' = IF try_acquire_ok(loadHigh, memHigh)
                THEN "read" ELSE AfterAdmit
    /\ UNCHANGED <<inputs, observer, devel, client, job_pipe, child_tokens, pending_jobs, queued_jobs,
                   active_jobs, completed_jobs, abandoned_jobs, result,
                   event_queue>>
    /\ jobsUnchanged

\* line 163: the test of the admit loop, up to the read of the pipe in
\* try_acquire
AdmitCheck ==
    /\ pc = "admit"
    /\ \E loadHigh, memHigh \in BOOLEAN :
          pc' = IF Len(queued_jobs) > 0 /\ try_acquire_ok(loadHigh, memHigh)
                THEN "read" ELSE AfterAdmit
    /\ UNCHANGED <<inputs, observer, devel, client, job_pipe, child_tokens, pending_jobs, queued_jobs,
                   active_jobs, completed_jobs, abandoned_jobs, result,
                   event_queue>>
    /\ jobsUnchanged

\* lines 163-177: the token is read and the head of the queue is started
ReadToken ==
    /\ pc = "read"
    /\ job_pipe > 0
    /\ job_pipe' = _acquire(job_pipe)
    /\ LET job == Head(queued_jobs)
       IN /\ queued_jobs' = Tail(queued_jobs)
          /\ active_jobs' = active_jobs \cup {job}
          /\ jst' = [jst EXCEPT ![job] = "created"]
          /\ event_queue' = event_queue \o
                <<StartedJob(job), StartedStage(job, 0)>>
    /\ pc' = "admit"
    /\ UNCHANGED <<inputs, observer, devel, client, buffers, child_tokens, pending_jobs, completed_jobs,
                   abandoned_jobs, result, jk, all_stages_succeeded, jresult,
                   stage_events>>

\* lines 183-189: the JOB_STATUS put before each completion is awaited
Status ==
    /\ pc = "status"
    /\ event_queue' = Append(event_queue,
            JobStatus(pending_jobs, queued_jobs, active_jobs, completed_jobs,
                      abandoned_jobs))
    /\ pc' = "wait"
    /\ UNCHANGED <<inputs, observer, devel, client, job_pipe, child_tokens, pending_jobs, queued_jobs,
                   active_jobs, completed_jobs, abandoned_jobs, result>>
    /\ jobsUnchanged

\* faulty variant of AbandonPeers: queued_jobs is not emptied
AbandonPeersKeepQueued(job_id, queued, pending) ==
    LET new_abandoned_jobs == queued \o pending
    IN [queued |-> queued, pending |-> <<>>,
        abandoned |-> new_abandoned_jobs,
        evs |-> [i \in 1..Len(new_abandoned_jobs) |->
                    AbandonedPeer(new_abandoned_jobs[i], job_id)]]

\* faulty variant of AbandonPeers: only the queued jobs are abandoned
AbandonPeersQueuedOnly(job_id, queued, pending) ==
    [queued |-> <<>>, pending |-> pending,
     abandoned |-> queued,
     evs |-> [i \in 1..Len(queued) |-> AbandonedPeer(queued[i], job_id)]]

\* lines 212-225: every queued and pending job is abandoned
AbandonPeers(job_id, queued, pending) ==
    LET new_abandoned_jobs == queued \o pending
    IN [queued |-> <<>>, pending |-> <<>>,
        abandoned |-> new_abandoned_jobs,
        evs |-> [i \in 1..Len(new_abandoned_jobs) |->
                    AbandonedPeer(new_abandoned_jobs[i], job_id)]]

\* faulty variant of AbandonDependents: the abandoned jobs are not followed up
AbandonDirectOnly(job_id, unhandled, pending, abandoned, evs) ==
    IF unhandled = <<>> THEN
        [pending |-> pending, abandoned |-> abandoned, evs |-> evs]
    ELSE
        LET abandoned_job_id == Head(unhandled)
            sp == split(pending, [j \in SeqToSet(pending) |-> abandoned_job_id \in deps[j]])
        IN [pending |-> sp[2],
            abandoned |-> abandoned \o sp[1],
            evs |-> evs \o [i \in 1..Len(sp[1]) |->
                               AbandonedDep(sp[1][i], abandoned_job_id, job_id)]]

\* lines 228-252: the pending jobs that depend on an abandoned job
RECURSIVE AbandonDependents(_, _, _, _, _)
AbandonDependents(job_id, unhandled, pending, abandoned, evs) ==
    IF unhandled = <<>> THEN
        [pending |-> pending, abandoned |-> abandoned, evs |-> evs]
    ELSE
        LET abandoned_job_id == Head(unhandled)
            sp == split(pending, [j \in SeqToSet(pending) |-> abandoned_job_id \in deps[j]])
            unhandled_abandoned_jobs == sp[1]
        IN AbandonDependents(
               job_id,
               Tail(unhandled) \o unhandled_abandoned_jobs,
               sp[2],
               abandoned \o unhandled_abandoned_jobs,
               evs \o [i \in 1..Len(unhandled_abandoned_jobs) |->
                          AbandonedDep(unhandled_abandoned_jobs[i],
                                       abandoned_job_id, job_id)])

\* lines 209-252: the failure policy
HandleFailure(job_id, succeeded, queued, pending) ==
    IF succeeded THEN
        [queued |-> queued, pending |-> pending, abandoned |-> <<>>,
         evs |-> <<>>]
    ELSE IF ~continue_on_failure THEN
        AbandonPeers(job_id, queued, pending)
    ELSE IF ~continue_without_deps THEN
        LET r == AbandonDependents(job_id, <<job_id>>, pending, <<>>, <<>>)
        IN [queued |-> queued, pending |-> r.pending,
            abandoned |-> r.abandoned, evs |-> r.evs]
    ELSE
        [queued |-> queued, pending |-> pending, abandoned |-> <<>>,
         evs |-> <<>>]

\* faulty variant of Promote: every pending job is promoted
PromoteAll(pending, completed) == <<pending, <<>>>>

\* faulty variant of Promote: the dependencies must have succeeded
PromoteSucceeded(pending, completed) ==
    split(pending,
          [j \in SeqToSet(pending) |->
              \A d \in deps[j] : d \in DOMAIN completed /\ completed[d]])

\* lines 254-264: the pending jobs whose dependencies are all completed
Promote(pending, completed) ==
    split(pending,
          [j \in SeqToSet(pending) |-> all_deps_completed(j, completed)])

\* lines 192-195: the result of job_id is received and its token is
\* written back to the pipe
Receive(job_id) ==
    /\ pc = "wait"
    /\ job_id \in active_jobs
    /\ jst[job_id] = "returned"
    /\ job_pipe' = _release(job_pipe)
    /\ jst' = [jst EXCEPT ![job_id] = "collected"]
    /\ pc' = "finish"
    /\ UNCHANGED <<inputs, observer, devel, client, buffers, child_tokens, pending_jobs, queued_jobs,
                   active_jobs, completed_jobs, abandoned_jobs, result, jk,
                   all_stages_succeeded, jresult, event_queue, stage_events>>

\* faulty variant of CompletionEvents: FINISHED_JOB is put last
CompletionEventsFinishedLast(job_id, succeeded, abandoned_evs, new_queued_jobs) ==
    abandoned_evs
        \o [i \in 1..Len(new_queued_jobs) |-> QueuedJob(new_queued_jobs[i])]
        \o <<FinishedJob(job_id, succeeded)>>

\* lines 197-264: the events put while a completion is processed, in the
\* order of the statements that put them
CompletionEvents(job_id, succeeded, abandoned_evs, new_queued_jobs) ==
    <<FinishedJob(job_id, succeeded)>>
        \o abandoned_evs
        \o [i \in 1..Len(new_queued_jobs) |-> QueuedJob(new_queued_jobs[i])]

\* lines 197-264: the completion of job_id is processed
Complete(job_id) ==
    /\ pc = "finish"
    /\ job_id \in active_jobs
    /\ jst[job_id] = "collected"
    /\ LET succeeded == jresult[job_id][2]
           completed == DictPut(completed_jobs, job_id, succeeded)
           f == HandleFailure(job_id, succeeded, queued_jobs, pending_jobs)
           sp == Promote(f.pending, completed)
           new_queued_jobs == sp[1]
       IN /\ active_jobs' = active_jobs \ {job_id}
          /\ completed_jobs' = completed
          /\ abandoned_jobs' = abandoned_jobs \o f.abandoned
          /\ pending_jobs' = sp[2]
          /\ queued_jobs' = f.queued \o new_queued_jobs
          /\ event_queue' = event_queue
                \o CompletionEvents(job_id, succeeded, f.evs, new_queued_jobs)
          /\ pc' = IF active_jobs \ {job_id} = {} THEN "loop" ELSE "status"
    /\ UNCHANGED <<inputs, observer, devel, client, buffers, job_pipe, child_tokens, result, jst, jk,
                   all_stages_succeeded, jresult, stage_events>>

\* line 192: the awaited job raised, and so does execute_jobs
Raise(job_id) ==
    /\ pc = "wait"
    /\ job_id \in active_jobs
    /\ jst[job_id] = "raised"
    /\ pc' = "raised"
    /\ UNCHANGED <<inputs, observer, devel, client, job_pipe, child_tokens, pending_jobs, queued_jobs,
                   active_jobs, completed_jobs, abandoned_jobs, result,
                   event_queue>>
    /\ jobsUnchanged

\* ------------------------------------------------------------------ Next
Next ==
    \/ Initialize
    \/ LoopEnter
    \/ Finish
    \/ AdmitCheck
    \/ ReadToken
    \/ Status
    \/ \E j \in SeqToSet(jobs) : Receive(j)
    \/ \E j \in SeqToSet(jobs) : Complete(j)
    \/ \E j \in SeqToSet(jobs) : Raise(j)
    \/ \E j \in SeqToSet(jobs) : JobBegin(j)
    \/ \E j \in SeqToSet(jobs) : \E o \in {"ok", "fail", "exc_spawn", "exc_wait", "exc_fun"} :
            StageDone(j, o)
    \/ \E j \in SeqToSet(jobs) : ChildTake(j)
    \/ \E j \in SeqToSet(jobs) : ChildReturn(j)

Spec == Init /\ [][Next]_vars

\* ------------------------------------------- the class methods of JobServer
\* everything of execute_jobs and async_job
schedulerUnchanged ==
    UNCHANGED <<inputs, observer, devel, pc, pending_jobs, queued_jobs, active_jobs,
                completed_jobs, abandoned_jobs, result, jst, jk,
                all_stages_succeeded, jresult, event_queue, stage_events,
                buffers>>

\* JobServer.gnu_make_enabled: the class flag, then the same flag read
\* through the singleton
gnu_make_enabled == gnu_make_supported /\ gnu_make_supported

\* A string is the sequence of its characters.
Digits == <<"0", "1", "2", "3", "4", "5", "6", "7", "8", "9">>

\* faulty variant of Decimal: the %o conversion
RECURSIVE Octal(_)
Octal(n) ==
    IF n < 8 THEN <<Digits[n + 1]>>
    ELSE Octal(n \div 8) \o <<Digits[(n % 8) + 1]>>

\* the %d conversion of a descriptor (which is not negative)
RECURSIVE Decimal(_)
Decimal(n) ==
    IF n < 10 THEN <<Digits[n + 1]>>
    ELSE Decimal(n \div 10) \o <<Digits[(n % 10) + 1]>>

\* "--jobserver-fds="
JobserverFds ==
    <<"-", "-", "j", "o", "b", "s", "e", "r", "v", "e", "r", "-", "f", "d",
      "s", "=">>

\* "--jobserver-fds=%d,%d" % job_pipe
FormatFds(fds) ==
    JobserverFds \o Decimal(fds[1]) \o <<",">> \o Decimal(fds[2])

\* JobServer.gnu_make_args
gnu_make_args ==
    IF gnu_make_enabled THEN <<FormatFds(pipe_fds), <<"-", "j">>>> ELSE <<>>

\* a call of JobServer.gnu_make_args
GnuMakeArgs ==
    /\ cpc = "idle"
    /\ cargs' = gnu_make_args
    /\ cret' = "args"
    /\ UNCHANGED <<cpc, ctokens, job_pipe, child_tokens>>
    /\ schedulerUnchanged

\* one next() of the generator of JobServer.try_acquire, up to the read of
\* the pipe in _acquire; without a singleton the first access raises
TryAcquire ==
    /\ cpc = "idle"
    /\ IF ~gnu_make_supported THEN
           /\ cret' = "AttributeError"
           /\ cpc' = cpc
       ELSE
           \E loadHigh, memHigh \in BOOLEAN :
               IF try_acquire_ok(loadHigh, memHigh)
               THEN cpc' = "reading" /\ cret' = cret
               ELSE cpc' = cpc /\ cret' = "None"
    /\ UNCHANGED <<ctokens, cargs, job_pipe, child_tokens>>
    /\ schedulerUnchanged

\* JobServer._acquire: os.read returns the token once a byte is readable
AcquireRead ==
    /\ cpc = "reading"
    /\ job_pipe > 0
    /\ job_pipe' = _acquire(job_pipe)
    /\ ctokens' = ctokens + 1
    /\ cret' = "token"
    /\ cpc' = "idle"
    /\ UNCHANGED <<cargs, child_tokens>>
    /\ schedulerUnchanged

\* JobServer._acquire: a signal interrupts the blocked os.read (EINTR)
AcquireEintr ==
    /\ cpc = "reading"
    /\ job_pipe = 0
    /\ cret' = "None"
    /\ cpc' = "idle"
    /\ UNCHANGED <<ctokens, cargs, job_pipe, child_tokens>>
    /\ schedulerUnchanged

\* JobServer.release, of a token that the caller holds
Release ==
    /\ cpc = "idle"
    /\ IF ~gnu_make_supported THEN
           /\ cret' = "AttributeError"
           /\ UNCHANGED <<ctokens, job_pipe>>
       ELSE
           /\ ctokens > 0
           /\ job_pipe' = _release(job_pipe)
           /\ ctokens' = ctokens - 1
           /\ cret' = "released"
    /\ UNCHANGED <<cpc, cargs, child_tokens>>
    /\ schedulerUnchanged

\* JobServer.wait_acquire (JobGuard.__enter__): a classmethod whose body
\* reads the name `self`, which is not defined: NameError in the first pass
\* of its loop
WaitAcquire ==
    /\ cpc = "idle"
    /\ cret' = "NameError"
    /\ UNCHANGED <<cpc, ctokens, cargs, job_pipe, child_tokens>>
    /\ schedulerUnchanged

\* A thread calls the class methods while the make children of a running
\* command stage use the pipe they inherited.
ServerInit ==
    /\ jobs = <<1>>
    /\ deps = [j \in {1} |-> {}]
    /\ stages = [j \in {1} |-> <<"cmd">>]
    /\ job_cof = [j \in {1} |-> TRUE]
    /\ continue_on_failure = FALSE
    /\ continue_without_deps = FALSE
    /\ max_jobs \in 1..MaxJobs
    /\ max_load \in BOOLEAN
    /\ max_mem \in BOOLEAN
    /\ gnu_make_supported \in BOOLEAN
    /\ job_pipe = (IF gnu_make_supported THEN InitialTokens(max_jobs) ELSE 0)
    /\ format_exc = <<"E", "\n">>
    /\ pipe_fds \in {fds \in (3..MaxFd) \X (3..MaxFd) : fds[1] # fds[2]}
    /\ child_tokens = [j \in {1} |-> 0]
    /\ cpc = "idle"
    /\ ctokens = 0
    /\ cret = ""
    /\ cargs = <<>>
    /\ pc = "api"
    /\ pending_jobs = <<>>
    /\ queued_jobs = <<>>
    /\ active_jobs = {}
    /\ completed_jobs = EmptyDict
    /\ abandoned_jobs = <<>>
    /\ result = <<>>
    /\ jst = [j \in {1} |-> "running"]
    /\ jk = [j \in {1} |-> 1]
    /\ all_stages_succeeded = [j \in {1} |-> TRUE]
    /\ jresult = [j \in {1} |-> <<>>]
    /\ event_queue = <<>>
    /\ stage_events = [j \in {1} |-> <<>>]
    /\ stdout_buffer = [j \in {1} |-> <<>>]
    /\ stderr_buffer = [j \in {1} |-> <<>>]
    /\ interleaved_buffer = [j \in {1} |-> <<>>]
    /\ keep_time = FALSE
    /\ opc = "run"
    /\ taken = [s \in {-1, 0} \cup SeqToSet(jobs) |-> 0]
    /\ active_stages = [j \in SeqToSet(jobs) |-> -1]
    /\ start_times = {}
    /\ status = NoSnap
    /\ NoDevelSpace

ServerNext ==
    \/ TryAcquire
    \/ AcquireRead
    \/ AcquireEintr
    \/ Release
    \/ WaitAcquire
    \/ GnuMakeArgs
    \/ \E j \in SeqToSet(jobs) : ChildTake(j)
    \/ \E j \in SeqToSet(jobs) : ChildReturn(j)

ServerSpec == ServerInit /\ [][ServerNext]_vars

\* ================================================================ claims
\* positions of the events of a kind in the queue of execute_jobs
EventsOf(eid) == {i \in DOMAIN event_queue : event_queue[i].event_id = eid}

\* the partitions as they are now
CurrentSnap ==
    [pending |-> pending_jobs, queued |-> queued_jobs, active |-> active_jobs,
     completed |-> completed_jobs, abandoned |-> abandoned_jobs]

\* the five partitions of s are pairwise disjoint, hold every submitted job
\* and their sizes sum to N
IsPartition(s) ==
    LET parts == <<SeqToSet(s.pending), SeqToSet(s.queued), s.active,
                   DOMAIN s.completed, SeqToSet(s.abandoned)>>
    IN /\ \A a, b \in 1..5 : a # b => parts[a] \cap parts[b] = {}
       /\ UNION {parts[a] : a \in 1..5} = SeqToSet(jobs)
       /\ Len(s.pending) + Len(s.queued) + Cardinality(s.active)
            + Cardinality(DOMAIN s.completed) + Len(s.abandoned) = Len(jobs)

\* execute_jobs has got past its initialization (lines 126-157)
Initialized == pc \notin {"start", "error"}

C1_State ==
    /\ \A i \in EventsOf("JOB_STATUS") : IsPartition(event_queue[i].snap)
    /\ Initialized => IsPartition(CurrentSnap)

C1_Step ==
    \A j \in SeqToSet(jobs) :
        /\ j \in DOMAIN completed_jobs =>
              /\ j \in DOMAIN completed_jobs'
              /\ completed_jobs'[j] = completed_jobs[j]
        /\ j \in SeqToSet(abandoned_jobs) => j \in SeqToSet(abandoned_jobs')

\* C1: at every JOB_STATUS and at every position of execute_jobs after its
\* initialization the five partitions are pairwise disjoint and their sizes
\* sum to the number of submitted jobs, and a job that is in completed or in
\* abandoned stays there (with the same success flag).
C1_Partition == []C1_State /\ [][C1_Step]_vars

\* a JOB_STATUS with a completed, an active and an abandoned job
C1_Witness ==
    \E i \in EventsOf("JOB_STATUS") :
        LET s == event_queue[i].snap
        IN /\ DOMAIN s.completed # {}
           /\ s.active # {}
           /\ s.abandoned # <<>>

\* C2: the number of active jobs never exceeds max_jobs, at every
\* JOB_STATUS and in between.
C2_ActiveBounded ==
    /\ \A i \in EventsOf("JOB_STATUS") :
          Cardinality(event_queue[i].snap.active) <= max_jobs
    /\ Cardinality(active_jobs) <= max_jobs

\* a JOB_STATUS with max_jobs active jobs and another job waiting for a token
C2_Witness ==
    \E i \in EventsOf("JOB_STATUS") :
        LET s == event_queue[i].snap
        IN /\ max_jobs > 1
           /\ Cardinality(s.active) = max_jobs
           /\ s.queued # <<>>

RECURSIVE SumOver(_, _)
SumOver(f, S) ==
    IF S = {} THEN 0
    ELSE LET x == CHOOSE y \in S : TRUE IN f[x] + SumOver(f, S \ {x})

\* the tokens held by make children
ChildTotal == SumOver(child_tokens, DOMAIN child_tokens)

\* C3 as stated: running_jobs() equals the number of active jobs.
C3_RunningEqualsActive == running_jobs = Cardinality(active_jobs)

\* C3 amended: with an initialized JobServer (make jobserver support
\* detected), whenever execute_jobs is suspended or has returned (and at
\* every other position but the one between the release of a token and the
\* removal of its job from active), running_jobs() is the number of active
\* jobs plus the number of tokens that make children hold.
C3_RunningCountsChildren ==
    (gnu_make_supported /\ pc # "finish") =>
        running_jobs = Cardinality(active_jobs) + ChildTotal

\* a make child holds a token while its job is active
C3_Witness ==
    /\ ChildTotal > 0
    /\ \E j \in active_jobs : child_tokens[j] > 0
    /\ running_jobs = Cardinality(active_jobs) + 1

\* C4: every STARTED_JOB is preceded in the queue by a FINISHED_JOB or an
\* ABANDONED_JOB of every dependency of the job.
C4_DepsBeforeStart ==
    \A i \in EventsOf("STARTED_JOB") :
        \A d \in deps[event_queue[i].job_id] :
            \E k \in 1..(i - 1) :
                /\ event_queue[k].job_id = d
                /\ event_queue[k].event_id \in {"FINISHED_JOB", "ABANDONED_JOB"}

\* a job with two dependencies has been started
C4_Witness ==
    \E i \in EventsOf("STARTED_JOB") :
        Cardinality(deps[event_queue[i].job_id]) > 1

\* the steps of execute_jobs itself
SchedulerStep ==
    \/ Initialize
    \/ LoopEnter
    \/ Finish
    \/ AdmitCheck
    \/ ReadToken
    \/ Status
    \/ \E j \in SeqToSet(jobs) : Receive(j)
    \/ \E j \in SeqToSet(jobs) : Complete(j)
    \/ \E j \in SeqToSet(jobs) : Raise(j)

\* The event loop runs the scheduler and every started coroutine whenever
\* they can run; every stage terminates (whatever its make children do in
\* between) and every make child gives its tokens back.
FairSpec ==
    /\ Spec
    /\ WF_vars(SchedulerStep)
    /\ \A j \in Jobs :
          /\ WF_vars(j \in SeqToSet(jobs) /\ JobBegin(j))
          /\ SF_vars(j \in SeqToSet(jobs) /\ \E o \in {"ok", "fail", "exc_spawn", "exc_wait", "exc_fun"} : StageDone(j, o))
          /\ WF_vars(j \in SeqToSet(jobs) /\ ChildReturn(j))

\* execute_jobs has left its loop, emitted the final JOB_STATUS and returned,
\* and every submitted job is completed or abandoned
C5_Returned ==
    /\ pc = "done"
    /\ pending_jobs = <<>> /\ queued_jobs = <<>> /\ active_jobs = {}
    /\ event_queue # <<>>
    /\ event_queue[Len(event_queue)].event_id = "JOB_STATUS"
    /\ \A j \in SeqToSet(jobs) :
          j \in DOMAIN completed_jobs \/ j \in SeqToSet(abandoned_jobs)

\* C5: with an initialized JobServer, when every stage terminates (and no
\* exception leaves a job),
\* execute_jobs eventually returns with every submitted job completed or
\* abandoned, for every input list and both policy flags, also when some
\* dependency ids are absent from the input.
C5_Terminates ==
    (gnu_make_supported /\ [](pc # "raised")) => <>C5_Returned

\* positions of the events of a kind among the events of async_job(j)
StageEventsOf(j, eid) ==
    {i \in DOMAIN stage_events[j] : stage_events[j][i].event_id = eid}

\* async_job(j) has returned its pair
HasReturned(j) == jst[j] \in {"returned", "collected"}

\* FINISHED_STAGE events of j that report a failure
FailedStages(j) ==
    {i \in StageEventsOf(j, "FINISHED_STAGE") : ~stage_events[j][i].succeeded}

\* C6: with the job's continue_on_failure false, no STARTED_STAGE or
\* FINISHED_STAGE follows the first failed FINISHED_STAGE of the job and the
\* job's result is failure; with the flag true, a job that has returned has
\* attempted every one of its stages.
C6_FlagEndsJob ==
    \A j \in SeqToSet(jobs) :
        /\ (~job_cof[j] /\ FailedStages(j) # {}) =>
              /\ \A i \in FailedStages(j) : \A k \in DOMAIN stage_events[j] :
                    k > i => stage_events[j][k].event_id
                                \notin {"STARTED_STAGE", "FINISHED_STAGE"}
              /\ HasReturned(j) => jresult[j] = <<j, FALSE>>
        /\ (job_cof[j] /\ HasReturned(j)) =>
              \A k \in 1..Len(stages[j]) :
                  \E i \in StageEventsOf(j, "FINISHED_STAGE") :
                      stage_events[j][i].label = k

\* C7: the pair returned by async_job is (jid, b) where b holds exactly if
\* every FINISHED_STAGE the job emitted has retcode 0; a stage without
\* FINISHED_STAGE does not count.
C7_ResultIsAnd ==
    \A j \in SeqToSet(jobs) :
        HasReturned(j) =>
            jresult[j] = <<j, \A i \in StageEventsOf(j, "FINISHED_STAGE") :
                                  stage_events[j][i].retcode = 0>>

\* a job has returned failure after a failed stage followed by a stage
\* that succeeded
C7_Witness ==
    \E j \in SeqToSet(jobs) :
        /\ HasReturned(j)
        /\ jresult[j] = <<j, FALSE>>
        /\ \E i, k \in StageEventsOf(j, "FINISHED_STAGE") :
              /\ i < k
              /\ stage_events[j][i].retcode # 0
              /\ stage_events[j][k].retcode = 0

\* C8: no exception of a stage leaves async_job: every logged traceback is
\* followed by FINISHED_STAGE{succeeded: false, retcode: 1}, no job
\* coroutine ends with an exception and none reaches the scheduler.
C8_ExceptionCaptured ==
    /\ pc # "raised"
    /\ \A j \in SeqToSet(jobs) :
          /\ jst[j] # "raised"
          /\ \A i \in StageEventsOf(j, "STDERR") :
                /\ i < Len(stage_events[j])
                /\ stage_events[j][i + 1].event_id = "FINISHED_STAGE"
                /\ ~stage_events[j][i + 1].succeeded
                /\ stage_events[j][i + 1].retcode = 1

\* FINISHED_JOB events that report a failure
FailedJobEvents ==
    {i \in EventsOf("FINISHED_JOB") : ~event_queue[i].succeeded}

\* job jid has an event of the kind before position i of the queue
EventBefore(eid, jid, i) ==
    \E k \in 1..(i - 1) :
        event_queue[k].event_id = eid /\ event_queue[k].job_id = jid

\* job jid has been abandoned because its peer failed
PeerAbandoned(jid, peer) ==
    \E k \in EventsOf("ABANDONED_JOB") :
        /\ event_queue[k].job_id = jid
        /\ event_queue[k].reason = "PEER_FAILED"
        /\ event_queue[k].ref = peer

NoStartAfterFailure ==
    \A i \in FailedJobEvents : \A k \in EventsOf("STARTED_JOB") : k < i

\* C9 as stated: with continue_on_failure false, after every failed
\* FINISHED_JOB each job that had no STARTED_JOB before it has an
\* ABANDONED_JOB{PEER_FAILED} naming that failed job, and no STARTED_JOB
\* follows.
C9_AllNotStartedAbandoned ==
    ~continue_on_failure =>
        /\ \A i \in FailedJobEvents : \A j \in SeqToSet(jobs) :
              ~EventBefore("STARTED_JOB", j, i) =>
                  PeerAbandoned(j, event_queue[i].job_id)
        /\ NoStartAfterFailure

\* C9 amended: with continue_on_failure false, each job that was neither
\* started nor abandoned before the first failed FINISHED_JOB has exactly
\* one ABANDONED_JOB, with reason PEER_FAILED and the job of that first
\* failed FINISHED_JOB as peer, and no STARTED_JOB follows a failed
\* FINISHED_JOB.
C9_FirstFailureAbandons ==
    (~continue_on_failure /\ FailedJobEvents # {}) =>
        LET first == CHOOSE i \in FailedJobEvents :
                         \A k \in FailedJobEvents : i <= k
        IN /\ \A j \in SeqToSet(jobs) :
                 (/\ ~EventBefore("STARTED_JOB", j, first)
                  /\ ~EventBefore("ABANDONED_JOB", j, first)) =>
                     /\ PeerAbandoned(j, event_queue[first].job_id)
                     /\ Cardinality({k \in EventsOf("ABANDONED_JOB") :
                                        event_queue[k].job_id = j}) = 1
           /\ NoStartAfterFailure

\* a queued job and a pending job were abandoned for the same failed peer
C9_Witness ==
    /\ ~continue_on_failure
    /\ \E b, c \in EventsOf("ABANDONED_JOB") :
          /\ b < c
          /\ event_queue[b].reason = "PEER_FAILED"
          /\ event_queue[c].reason = "PEER_FAILED"
          /\ event_queue[b].ref = event_queue[c].ref
          /\ deps[event_queue[b].job_id] = {}
          /\ deps[event_queue[c].job_id] # {}

\* the events that a step appends to the queue
NewEvents ==
    SubSeq(event_queue', Len(event_queue) + 1, Len(event_queue'))

\* the jobs of P that depend on a job of R, directly or through jobs of P
RECURSIVE Closure(_, _)
Closure(R, P) ==
    LET more == {j \in P \ R : \E r \in R : r \in deps[j]}
    IN IF more = {} THEN R ELSE Closure(R \cup more, P)

Reach(f, P) == Closure({f}, P) \ {f}

C10_Step ==
    (continue_on_failure /\ ~continue_without_deps) =>
        LET new == NewEvents
            failed == {new[i].job_id : i \in
                         {i \in DOMAIN new : /\ new[i].event_id = "FINISHED_JOB"
                                             /\ ~new[i].succeeded}}
            dep_failed == {i \in DOMAIN new : new[i].reason = "DEP_FAILED"}
        IN /\ {new[i].job_id : i \in dep_failed}
                = UNION {Reach(f, SeqToSet(pending_jobs)) : f \in failed}
           /\ \A i \in dep_failed : new[i].ref \in failed

\* C10: with continue_on_failure true and continue_without_deps false, the
\* jobs that a step abandons with reason DEP_FAILED are exactly the jobs
\* reached from the job whose failure the step processes along dependency
\* edges through jobs that are pending at that moment; a step that
\* processes no failure abandons none.
C10_Transitive == [][C10_Step]_vars

\* a job was abandoned for the failure of a job it depends on only
\* through another pending job
C10_Witness ==
    /\ continue_on_failure /\ ~continue_without_deps
    /\ \E i \in EventsOf("ABANDONED_JOB") :
          /\ event_queue[i].reason = "DEP_FAILED"
          /\ event_queue[i].direct # event_queue[i].ref
          /\ event_queue[i].ref \notin deps[event_queue[i].job_id]

\* the ABANDONED_JOB events of job jid
AbandonedEvents(jid) ==
    {i \in EventsOf("ABANDONED_JOB") : event_queue[i].job_id = jid}

\* the jobs with a dependency id that no submitted job has
MissingDepJobs ==
    {j \in SeqToSet(jobs) : ~(deps[j] \subseteq SeqToSet(jobs))}

\* C11: once execute_jobs is initialized, every job with a dependency id
\* that is not in the input is in abandoned and has exactly one
\* ABANDONED_JOB; its reason is MISSING_DEPS, its dep_ids are exactly the
\* unknown ids, it precedes every STARTED_JOB, and the job has no
\* STARTED_JOB.
C11_MissingDeps ==
    Initialized =>
        \A j \in MissingDepJobs :
            /\ j \in SeqToSet(abandoned_jobs)
            /\ Cardinality(AbandonedEvents(j)) = 1
            /\ \A i \in AbandonedEvents(j) :
                  /\ event_queue[i].reason = "MISSING_DEPS"
                  /\ event_queue[i].dep_ids = deps[j] \ SeqToSet(jobs)
                  /\ \A k \in EventsOf("STARTED_JOB") :
                        i < k /\ event_queue[k].job_id # j

\* a job with a known and an unknown dependency was abandoned and another
\* job was started afterwards
C11_Witness ==
    \E j \in MissingDepJobs :
        /\ deps[j] \cap SeqToSet(jobs) # {}
        /\ AbandonedEvents(j) # {}
        /\ EventsOf("STARTED_JOB") # {}

\* every submitted job is in completed with the flag true
AllJobsSucceeded ==
    \A j \in SeqToSet(jobs) :
        j \in DOMAIN completed_jobs /\ completed_jobs[j]

\* C12: the value returned by execute_jobs is true exactly if every
\* submitted job completed successfully; it is false when a job failed or
\* was abandoned, also when the only such job was abandoned for
\* MISSING_DEPS.
C12_ResultIffAllSucceeded ==
    pc = "done" => result = <<AllJobsSucceeded>>

\* The events with job_id jid in the order in which they are put on the
\* queue: async_job(jid) puts its events after the scheduler has put
\* STARTED_JOB and STARTED_STAGE 'activate' for jid and before the scheduler
\* receives the result of the job and puts FINISHED_JOB.
JobStream(jid) ==
    LET se == SelectSeq(event_queue, LAMBDA e : e.job_id = jid)
    IN IF se # <<>> /\ se[Len(se)].event_id = "FINISHED_JOB"
       THEN SubSeq(se, 1, Len(se) - 1) \o stage_events[jid]
                \o <<se[Len(se)]>>
       ELSE se \o stage_events[jid]

\* positions of the events of a kind in a sequence of events
PositionsOf(w, eid) == {i \in DOMAIN w : w[i].event_id = eid}

\* C13: in the events of a job, STARTED_JOB precedes and FINISHED_JOB
\* follows every stage event, every STARTED_STAGE is followed by a
\* FINISHED_STAGE before the next STARTED_STAGE or the FINISHED_JOB, a
\* finished job has had at least one FINISHED_STAGE, and an abandoned job
\* has no stage events.
C13_EventOrder ==
    \A j \in SeqToSet(jobs) :
        LET w == JobStream(j)
            stage == PositionsOf(w, "STARTED_STAGE")
                        \cup PositionsOf(w, "FINISHED_STAGE")
        IN /\ \A i \in stage :
                 /\ \E k \in PositionsOf(w, "STARTED_JOB") : k < i
                 /\ \A k \in PositionsOf(w, "FINISHED_JOB") : i < k
           /\ \A i \in PositionsOf(w, "STARTED_STAGE") :
                 \A k \in PositionsOf(w, "STARTED_STAGE")
                            \cup PositionsOf(w, "FINISHED_JOB") :
                     i < k => \E m \in PositionsOf(w, "FINISHED_STAGE") :
                                 i < m /\ m < k
           /\ PositionsOf(w, "FINISHED_JOB") # {} =>
                 PositionsOf(w, "FINISHED_STAGE") # {}
           /\ PositionsOf(w, "ABANDONED_JOB") # {} => stage = {}

\* C14: execute_jobs does not wait for the completion of an active job
\* while a job is queued and try_acquire would yield a token for it.
C14_AdmitBeforeWait ==
    (pc = "wait" /\ active_jobs # {}) =>
        ~(/\ queued_jobs # <<>>
          /\ \A loadHigh, memHigh \in BOOLEAN :
                try_acquire_ok(loadHigh, memHigh))

\* C15: try_acquire never blocks: a caller that has passed the admission
\* test and reads the pipe always finds a byte to read, also while make
\* children read and write the pipe.
C15_TryAcquireNeverBlocks == ~(cpc = "reading" /\ job_pipe = 0)

\* with no token checked out the admission test passes for every reading
C16_State ==
    (gnu_make_supported /\ running_jobs = 0) =>
        \A loadHigh, memHigh \in BOOLEAN :
            /\ _conditions_ok(loadHigh, memHigh)
            /\ try_acquire_ok(loadHigh, memHigh)

C17_Step ==
    (gnu_make_supported /\ WaitAcquire) =>
        /\ cret' = "token"
        /\ ctokens' = ctokens + 1
        /\ job_pipe' = job_pipe - 1

C17_WaitAcquireReturnsToken == [][C17_Step]_vars

\* C18: without make jobserver support gnu_make_args() is empty and
\* execute_jobs still runs: its calls of the JobServer class methods do not
\* fail.
C18_UsableWithoutMake ==
    ~gnu_make_supported => (gnu_make_args = <<>> /\ pc # "error")

\* the events of a kind that carry job_id jid
JobEventsOf(eid, jid) == {i \in EventsOf(eid) : event_queue[i].job_id = jid}

\* the jobs whose token execute_jobs has written back (line 195)
ReleasedJobs == {j \in SeqToSet(jobs) : jst[j] = "collected"}

\* C19: the pipe starts with max_jobs bytes; every started job has taken
\* one byte and every job whose result was received has given one back, at
\* most once per job and only for a started job, so that the bytes in the
\* pipe, the tokens of the started jobs not yet released and those held by
\* make children always add up to max_jobs; the pipe never holds more than
\* max_jobs bytes and holds max_jobs again when execute_jobs has returned.
C19_TokenConservation ==
    gnu_make_supported =>
        /\ pc = "start" => job_pipe = max_jobs
        /\ job_pipe >= 0 /\ job_pipe <= max_jobs
        /\ job_pipe + Cardinality(EventsOf("STARTED_JOB"))
              - Cardinality(ReleasedJobs) + ChildTotal = max_jobs
        /\ \A j \in SeqToSet(jobs) :
              /\ Cardinality(JobEventsOf("FINISHED_JOB", j)) <= 1
              /\ Cardinality(JobEventsOf("FINISHED_JOB", j))
                    <= Cardinality(JobEventsOf("STARTED_JOB", j))
              /\ JobEventsOf("FINISHED_JOB", j) # {} => j \in ReleasedJobs
              /\ j \in ReleasedJobs => JobEventsOf("STARTED_JOB", j) # {}
        /\ pc = "done" =>
              /\ job_pipe = max_jobs
              /\ \A j \in SeqToSet(jobs) :
                    Cardinality(JobEventsOf("FINISHED_JOB", j))
                        = Cardinality(JobEventsOf("STARTED_JOB", j))

\* execute_jobs has returned after three jobs shared two tokens
C19_Witness ==
    /\ pc = "done"
    /\ max_jobs = 2
    /\ Cardinality(EventsOf("FINISHED_JOB")) = 3
    /\ job_pipe = max_jobs

\* C20: with continue_on_failure and continue_without_deps both true no
\* ABANDONED_JOB has reason PEER_FAILED or DEP_FAILED, no job stays pending
\* once all its dependencies are in completed, whatever their flags, and
\* when execute_jobs returns every job whose dependencies are all in the
\* input has been started and has completed.
C20_NoPropagation ==
    (continue_on_failure /\ continue_without_deps) =>
        /\ \A i \in EventsOf("ABANDONED_JOB") :
              event_queue[i].reason \notin {"PEER_FAILED", "DEP_FAILED"}
        /\ Initialized =>
              \A j \in SeqToSet(pending_jobs) :
                  ~(deps[j] \subseteq DOMAIN completed_jobs)
        /\ pc = "done" =>
              \A j \in SeqToSet(jobs) \ MissingDepJobs :
                  /\ JobEventsOf("STARTED_JOB", j) # {}
                  /\ j \in DOMAIN completed_jobs

\* a job was started although one of its dependencies had failed
C20_Witness ==
    /\ continue_on_failure /\ continue_without_deps
    /\ \E i \in EventsOf("STARTED_JOB") :
          \E d \in deps[event_queue[i].job_id] :
              d \in DOMAIN completed_jobs /\ ~completed_jobs[d]

\* ------------------------------------------------------------ the diamond
\* The diamond A -> B, A -> C, B -> D, C -> D as the input list
\* [A, B, C, D] = <<1, 2, 3, 4>> of jobs with a single stage each, run with
\* an initialized JobServer; every dependency is in the input.
DiamondInit ==
    /\ jobs = <<1, 2, 3, 4>>
    /\ deps = [j \in 1..4 |-> CASE j = 1 -> {}
                                [] j = 4 -> {2, 3}
                                [] OTHER -> {1}]
    /\ stages \in UniformStages(jobs, ShortLists \ {<<>>})
    /\ job_cof = [j \in SeqToSet(jobs) |-> TRUE]
    /\ continue_on_failure \in BOOLEAN
    /\ continue_without_deps \in BOOLEAN
    /\ max_jobs \in 1..MaxJobs
    /\ max_load \in BOOLEAN
    /\ max_mem = FALSE
    /\ gnu_make_supported = TRUE
    /\ job_pipe = InitialTokens(max_jobs)
    /\ pipe_fds = <<3, 4>>
    /\ format_exc = <<"E", "\n">>
    /\ cpc = "idle"
    /\ ctokens = 0
    /\ cret = ""
    /\ cargs = <<>>
    /\ child_tokens = [j \in SeqToSet(jobs) |-> 0]
    /\ pc = "start"
    /\ pending_jobs = <<>>
    /\ queued_jobs = <<>>
    /\ active_jobs = {}
    /\ completed_jobs = EmptyDict
    /\ abandoned_jobs = <<>>
    /\ result = <<>>
    /\ jst = [j \in SeqToSet(jobs) |-> "idle"]
    /\ jk = [j \in SeqToSet(jobs) |-> 0]
    /\ all_stages_succeeded = [j \in SeqToSet(jobs) |-> TRUE]
    /\ jresult = [j \in SeqToSet(jobs) |-> <<>>]
    /\ event_queue = <<>>
    /\ stage_events = [j \in SeqToSet(jobs) |-> <<>>]
    /\ stdout_buffer = [j \in SeqToSet(jobs) |-> <<>>]
    /\ stderr_buffer = [j \in SeqToSet(jobs) |-> <<>>]
    /\ interleaved_buffer = [j \in SeqToSet(jobs) |-> <<>>]
    /\ keep_time = FALSE
    /\ opc = "run"
    /\ taken = [s \in {-1, 0} \cup SeqToSet(jobs) |-> 0]
    /\ active_stages = [j \in SeqToSet(jobs) |-> -1]
    /\ start_times = {}
    /\ status = NoSnap
    /\ NoDevelSpace

DiamondSpec == DiamondInit /\ [][Next]_vars

\* so far the stage of B (job 2) is the only one that has failed, and no
\* exception has left a job
OnlyBFails ==
    \A j \in SeqToSet(jobs) :
        /\ jst[j] # "raised"
        /\ \A i \in StageEventsOf(j, "FINISHED_STAGE") :
              stage_events[j][i].succeeded <=> (j # 2)

\* job jid is in completed with the given flag
CompletedWith(jid, ok) ==
    jid \in DOMAIN completed_jobs /\ completed_jobs[jid] = ok

\* C21 as stated: in the diamond with continue_on_failure false where only
\* B fails, when execute_jobs has returned A has completed with success, B
\* with failure, C and D are both abandoned with PEER_FAILED, and the
\* result is false.
C21_DiamondAsStated ==
    (~continue_on_failure /\ OnlyBFails /\ pc = "done") =>
        /\ CompletedWith(1, TRUE)
        /\ CompletedWith(2, FALSE)
        /\ PeerAbandoned(3, 2)
        /\ PeerAbandoned(4, 2)
        /\ result = <<FALSE>>

\* C21 amended: in the diamond with continue_on_failure false where only B
\* fails, A completes with success and B with failure; D is never started
\* and is abandoned with PEER_FAILED{peer: B} as soon as B's FINISHED_JOB
\* is emitted; C is abandoned with PEER_FAILED{peer: B} if it had not been
\* started before B's FINISHED_JOB (always so with max_jobs = 1) and
\* otherwise runs on and completes with success; the result is false.
C21_DiamondDefault ==
    (~continue_on_failure /\ OnlyBFails) =>
        /\ \A i \in JobEventsOf("FINISHED_JOB", 1) : event_queue[i].succeeded
        /\ \A i \in JobEventsOf("FINISHED_JOB", 2) :
              /\ ~event_queue[i].succeeded
              /\ PeerAbandoned(4, 2)
              /\ IF EventBefore("STARTED_JOB", 3, i)
                 THEN AbandonedEvents(3) = {}
                 ELSE PeerAbandoned(3, 2)
        /\ JobEventsOf("STARTED_JOB", 4) = {}
        /\ max_jobs = 1 => ~(JobEventsOf("STARTED_JOB", 2) # {}
                                /\ JobEventsOf("STARTED_JOB", 3) # {})
        /\ pc = "done" =>
              /\ CompletedWith(1, TRUE)
              /\ CompletedWith(2, FALSE)
              /\ 4 \in SeqToSet(abandoned_jobs)
              /\ \/ 3 \in SeqToSet(abandoned_jobs)
                 \/ CompletedWith(3, TRUE)
              /\ result = <<FALSE>>

\* execute_jobs has returned after B failed while C was still queued: C
\* and D were abandoned for their peer B
C21_Witness ==
    /\ ~continue_on_failure /\ OnlyBFails /\ pc = "done"
    /\ PeerAbandoned(3, 2)
    /\ PeerAbandoned(4, 2)
    /\ result = <<FALSE>>

\* job jid has been abandoned because its dependency dep failed
DepAbandoned(jid, dep) ==
    \E k \in AbandonedEvents(jid) :
        /\ event_queue[k].reason = "DEP_FAILED"
        /\ event_queue[k].ref = dep

\* C22: in the diamond with continue_on_failure true and
\* continue_without_deps false where only B fails, A and C complete with
\* success and B with failure, D is never started and is abandoned, once
\* and with DEP_FAILED{dep_job_id: B}, as soon as B's FINISHED_JOB is
\* emitted, no other job is abandoned, and the result is false.
C22_DiamondContinue ==
    (continue_on_failure /\ ~continue_without_deps /\ OnlyBFails) =>
        /\ \A i \in JobEventsOf("FINISHED_JOB", 1) : event_queue[i].succeeded
        /\ \A i \in JobEventsOf("FINISHED_JOB", 3) : event_queue[i].succeeded
        /\ \A i \in JobEventsOf("FINISHED_JOB", 2) :
              /\ ~event_queue[i].succeeded
              /\ DepAbandoned(4, 2)
        /\ JobEventsOf("STARTED_JOB", 4) = {}
        /\ Cardinality(AbandonedEvents(4)) <= 1
        /\ \A i \in EventsOf("ABANDONED_JOB") :
              /\ event_queue[i].job_id = 4
              /\ event_queue[i].reason = "DEP_FAILED"
              /\ event_queue[i].ref = 2
        /\ pc = "done" =>
              /\ CompletedWith(1, TRUE)
              /\ CompletedWith(2, FALSE)
              /\ CompletedWith(3, TRUE)
              /\ 4 \in SeqToSet(abandoned_jobs)
              /\ result = <<FALSE>>

\* execute_jobs has returned after C completed before B failed
C22_Witness ==
    /\ continue_on_failure /\ ~continue_without_deps /\ OnlyBFails
    /\ pc = "done"
    /\ \E c \in JobEventsOf("FINISHED_JOB", 3) :
          \E b \in JobEventsOf("FINISHED_JOB", 2) : c < b
    /\ DepAbandoned(4, 2)

\* the input is a linear chain: every job but the first depends on the one
\* before it in the list, and on nothing else
IsChain ==
    /\ jobs # <<>>
    /\ \A j \in SeqToSet(jobs) : deps[j] = (IF j = 1 THEN {} ELSE {j - 1})

\* so far every stage has succeeded and no exception has left a job
AllStagesSucceed ==
    \A j \in SeqToSet(jobs) :
        /\ jst[j] # "raised"
        /\ \A i \in StageEventsOf(j, "FINISHED_STAGE") :
              stage_events[j][i].succeeded

\* the job-level events of the queue, in order
JobLevelEvents ==
    SelectSeq(event_queue,
              LAMBDA e : e.event_id \in {"QUEUED_JOB", "STARTED_JOB",
                                         "FINISHED_JOB", "ABANDONED_JOB"})

\* STARTED_JOB 1, FINISHED_JOB 1, QUEUED_JOB 2, STARTED_JOB 2,
\* FINISHED_JOB 2, ..., STARTED_JOB n, FINISHED_JOB n
ChainEvents(n) ==
    [i \in 1..(3 * n - 1) |->
        LET j == (i \div 3) + 1
        IN CASE i % 3 = 0 -> QueuedJob(j)
             [] i % 3 = 1 -> StartedJob(j)
             [] OTHER -> FinishedJob(j, TRUE)]

\* C23: for a linear chain whose stages all succeed, for every max_jobs,
\* the job-level events emitted so far are an initial part of STARTED_JOB
\* j1, FINISHED_JOB j1 (succeeded), QUEUED_JOB j2, STARTED_JOB j2,
\* FINISHED_JOB j2, ..., FINISHED_JOB jn, at most one job is active at a
\* time, and when execute_jobs has returned they are all of that sequence
\* and the result is true.
C23_LinearChain ==
    (IsChain /\ AllStagesSucceed) =>
        LET expected == ChainEvents(Len(jobs))
            got == JobLevelEvents
        IN /\ Len(got) <= Len(expected)
           /\ got = SubSeq(expected, 1, Len(got))
           /\ Cardinality(active_jobs) <= 1
           /\ \A i \in EventsOf("JOB_STATUS") :
                 Cardinality(event_queue[i].snap.active) <= 1
           /\ pc = "done" => (got = expected /\ result = <<TRUE>>)

\* execute_jobs has returned for a chain of three jobs with two tokens
C23_Witness ==
    /\ IsChain /\ AllStagesSucceed
    /\ Len(jobs) = 3
    /\ max_jobs = 2
    /\ pc = "done"
    /\ JobLevelEvents = ChainEvents(3)
    /\ result = <<TRUE>>

\* C24: with an empty job list (and an initialized JobServer) execute_jobs
\* neither admits nor waits, puts no event before it returns, and returns
\* true after it has put exactly one event, a JOB_STATUS whose five
\* partitions are empty.
C24_EmptyInput ==
    (jobs = <<>> /\ gnu_make_supported) =>
        /\ pc \in {"start", "loop", "done"}
        /\ pc # "done" => (event_queue = <<>> /\ result = <<>>)
        /\ pc = "done" =>
              /\ event_queue = <<JobStatus(<<>>, <<>>, {}, EmptyDict, <<>>)>>
              /\ result = <<TRUE>>

\* execute_jobs has returned for the empty list
C24_Witness ==
    /\ jobs = <<>>
    /\ pc = "done"
    /\ Len(event_queue) = 1

\* event.data of a JOB_STATUS as an observer reads it now: the event holds
\* the keyword arguments it was constructed with; pending, queued, active
\* and abandoned are lists built for the event (lines 185-189), completed
\* is the dict completed_jobs of execute_jobs itself (line 188), which
\* line 207 updates in place
EventData(e) == [e.snap EXCEPT !.completed = completed_jobs]

\* the five values of s are pairwise disjoint
IsDisjoint(s) ==
    LET parts == <<SeqToSet(s.pending), SeqToSet(s.queued), s.active,
                   DOMAIN s.completed, SeqToSet(s.abandoned)>>
    IN \A a, b \in 1..5 : a # b => parts[a] \cap parts[b] = {}

\* C25: whenever an observer reads a JOB_STATUS event, however far
\* execute_jobs has advanced since, the five values it reads are those of
\* the scheduler at the moment of emission, and they are pairwise disjoint.
C25_ImmutableSnapshot ==
    \A i \in EventsOf("JOB_STATUS") :
        /\ EventData(event_queue[i]) = event_queue[i].snap
        /\ IsDisjoint(EventData(event_queue[i]))

\* the number that a sequence of decimal digits denotes
RECURSIVE ParseDecimal(_)
ParseDecimal(w) ==
    IF w = <<>> THEN 0
    ELSE ParseDecimal(SubSeq(w, 1, Len(w) - 1)) * 10
            + ((CHOOSE d \in 1..10 : Digits[d] = w[Len(w)]) - 1)

\* w is a non-empty sequence of decimal digits
IsNumber(w) == w # <<>> /\ \A i \in DOMAIN w : \E d \in 1..10 : Digits[d] = w[i]

\* C26: gnu_make_args() returns the empty list when make jobserver support
\* was not detected; otherwise it returns two strings, of which the second
\* is "-j" and the first is "--jobserver-fds=" followed by two numbers in
\* decimal digits with one comma between them, which are the read and the
\* write descriptor of the token pipe, in this order.
C26_GnuMakeArgs ==
    cret = "args" =>
        IF gnu_make_supported THEN
            /\ Len(cargs) = 2
            /\ cargs[2] = <<"-", "j">>
            /\ Len(cargs[1]) > Len(JobserverFds)
            /\ SubSeq(cargs[1], 1, Len(JobserverFds)) = JobserverFds
            /\ LET rest == SubSeq(cargs[1], Len(JobserverFds) + 1,
                                  Len(cargs[1]))
                   commas == {i \in DOMAIN rest : rest[i] = ","}
               IN /\ Cardinality(commas) = 1
                  /\ \A c \in commas :
                        LET R == SubSeq(rest, 1, c - 1)
                            W == SubSeq(rest, c + 1, Len(rest))
                        IN /\ IsNumber(R) /\ IsNumber(W)
                           /\ <<ParseDecimal(R), ParseDecimal(W)>> = pipe_fds
        ELSE cargs = <<>>

\* gnu_make_args() has returned the arguments for a pipe whose write
\* descriptor has two digits and is the smaller one
C26_Witness ==
    /\ cret = "args"
    /\ gnu_make_supported
    /\ Len(cargs) = 2
    /\ pipe_fds[2] >= 10
    /\ pipe_fds[1] > pipe_fds[2]

\* an ABANDONED_JOB that the processing of a completion has put
IsAbandonment(e) ==
    e.event_id = "ABANDONED_JOB" /\ e.reason \in {"PEER_FAILED", "DEP_FAILED"}

\* the position of the last FINISHED_JOB before position i
LastFinishedBefore(i) ==
    CHOOSE k \in EventsOf("FINISHED_JOB") :
        k < i /\ \A m \in EventsOf("FINISHED_JOB") : m < i => m <= k

\* C27: among the events that execute_jobs puts, every FINISHED_JOB comes
\* right after a JOB_STATUS and every JOB_STATUS but the last is followed
\* by a FINISHED_JOB; the ABANDONED_JOB events of a completion follow its
\* FINISHED_JOB without any other event in between and name the job of
\* that FINISHED_JOB, which failed; a QUEUED_JOB follows the FINISHED_JOB,
\* the abandonments or another QUEUED_JOB of the same step; and the token
\* of a job is back in the pipe before its FINISHED_JOB is put.
C27_StepOrder ==
    /\ \A i \in DOMAIN event_queue :
          LET e == event_queue[i]
          IN /\ e.event_id = "FINISHED_JOB" =>
                   i > 1 /\ event_queue[i - 1].event_id = "JOB_STATUS"
             /\ (e.event_id = "JOB_STATUS" /\ i < Len(event_queue)) =>
                   event_queue[i + 1].event_id = "FINISHED_JOB"
             /\ IsAbandonment(e) =>
                   /\ i > 1
                   /\ \/ event_queue[i - 1].event_id = "FINISHED_JOB"
                      \/ IsAbandonment(event_queue[i - 1])
                   /\ e.ref = event_queue[LastFinishedBefore(i)].job_id
                   /\ ~event_queue[LastFinishedBefore(i)].succeeded
             /\ e.event_id = "QUEUED_JOB" =>
                   /\ i > 1
                   /\ \/ event_queue[i - 1].event_id
                            \in {"FINISHED_JOB", "QUEUED_JOB"}
                      \/ IsAbandonment(event_queue[i - 1])
    /\ gnu_make_supported =>
          /\ job_pipe + Cardinality(EventsOf("STARTED_JOB"))
                - Cardinality(EventsOf("FINISHED_JOB")) + ChildTotal
                    >= max_jobs
          /\ pc = "finish" =>
                \E j \in ReleasedJobs : JobEventsOf("FINISHED_JOB", j) = {}

\* one completion has been followed by a QUEUED_JOB and a later one, of
\* the job queued then, by an ABANDONED_JOB
C27_Witness ==
    /\ gnu_make_supported
    /\ \E i \in EventsOf("FINISHED_JOB") :
          /\ i < Len(event_queue)
          /\ event_queue[i + 1].event_id = "QUEUED_JOB"
    /\ \E i \in EventsOf("FINISHED_JOB") :
          /\ i < Len(event_queue)
          /\ IsAbandonment(event_queue[i + 1])

\* C28: between any two FINISHED_JOB events that execute_jobs puts there is
\* a JOB_STATUS, and between two JOB_STATUS events there is exactly one
\* FINISHED_JOB, whose job is the one by which the completed map of the
\* second exceeds that of the first; every JOB_STATUS but the one put last
\* before execute_jobs returns has a non-empty active list, and that last
\* one has an empty one.
C28_OneCompletionPerWait ==
    /\ \A i, k \in EventsOf("FINISHED_JOB") :
          i < k => \E m \in EventsOf("JOB_STATUS") : i < m /\ m < k
    /\ \A i, k \in EventsOf("JOB_STATUS") :
          (i < k /\ \A m \in EventsOf("JOB_STATUS") : ~(i < m /\ m < k)) =>
              LET between == {m \in EventsOf("FINISHED_JOB") : i < m /\ m < k}
              IN /\ Cardinality(between) = 1
                 /\ DOMAIN event_queue[k].snap.completed =
                       DOMAIN event_queue[i].snap.completed
                          \cup {event_queue[m].job_id : m \in between}
    /\ \A i \in EventsOf("JOB_STATUS") :
          IF pc = "done" /\ i = Len(event_queue)
          THEN event_queue[i].snap.active = {}
          ELSE event_queue[i].snap.active # {}

\* two jobs were active together and their completions were reported one
\* after the other, each after a JOB_STATUS of its own
C28_Witness ==
    \E i, k \in EventsOf("JOB_STATUS") :
        /\ k = i + 2
        /\ Cardinality(event_queue[i].snap.active) = 2
        /\ Cardinality(event_queue[k].snap.active) = 1
        /\ event_queue[i + 1].event_id = "FINISHED_JOB"
        /\ k < Len(event_queue)
        /\ event_queue[k + 1].event_id = "FINISHED_JOB"

\* C29: in the events of every job the FINISHED_STAGE events carry the
\* labels of stages of the job in increasing position in the stages list,
\* so each stage has at most one, and each FINISHED_STAGE is preceded by a
\* STARTED_STAGE with the same label, with no other STARTED_STAGE between
\* the two.
C29_StageOrder ==
    \A j \in SeqToSet(jobs) :
        LET w == stage_events[j]
            fin == StageEventsOf(j, "FINISHED_STAGE")
            sta == StageEventsOf(j, "STARTED_STAGE")
        IN /\ \A i, k \in fin : i < k => w[i].label < w[k].label
           /\ \A i \in fin :
                 /\ w[i].label \in 1..Len(stages[j])
                 /\ \E m \in sta :
                       /\ m < i
                       /\ w[m].label = w[i].label
                       /\ \A n \in sta : ~(m < n /\ n < i)

\* a job has finished its second stage after its first one
C29_Witness ==
    \E j \in SeqToSet(jobs) :
        \E i, k \in StageEventsOf(j, "FINISHED_STAGE") :
            /\ i < k
            /\ stage_events[j][i].label = 1
            /\ stage_events[j][k].label = 2

\* the job ids of the events of a kind, in the order of the queue
JobIdsOf(eid) ==
    LET w == SelectSeq(event_queue, LAMBDA e : e.event_id = eid)
    IN [i \in 1..Len(w) |-> w[i].job_id]

\* the jobs in the order in which they have entered queued: those without
\* dependencies in the order of the input list (line 154, no event), then
\* the promoted jobs in the order of their QUEUED_JOB events
EnterOrder ==
    SelectSeq(jobs, LAMBDA j : deps[j] = {}) \o JobIdsOf("QUEUED_JOB")

\* a sequence of jobs is in the relative order of the input list
InInputOrder(w) == \A i, k \in DOMAIN w : i < k => w[i] < w[k]

\* C30: once execute_jobs is initialized, pending and each run of
\* QUEUED_JOB events of one step are in the relative order of the input
\* list; the jobs started so far are, in the order of their STARTED_JOB
\* events, the first jobs of the order in which jobs have entered queued;
\* and queued, unless a failure has emptied it, holds the rest of that
\* order.
C30_QueueFifo ==
    Initialized =>
        /\ InInputOrder(pending_jobs)
        /\ \A i \in EventsOf("QUEUED_JOB") :
              (i > 1 /\ event_queue[i - 1].event_id = "QUEUED_JOB") =>
                  event_queue[i - 1].job_id < event_queue[i].job_id
        /\ LET started == JobIdsOf("STARTED_JOB")
           IN /\ Len(started) <= Len(EnterOrder)
              /\ started = SubSeq(EnterOrder, 1, Len(started))
              /\ queued_jobs # <<>> =>
                    queued_jobs = SubSeq(EnterOrder, Len(started) + 1,
                                         Len(EnterOrder))

\* a job has been started and the two jobs that its completion promoted
\* wait in queued, in input order
C30_Witness ==
    /\ Len(JobIdsOf("STARTED_JOB")) >= 1
    /\ Len(queued_jobs) = 2
    /\ \E i \in EventsOf("QUEUED_JOB") :
          /\ i > 1
          /\ event_queue[i - 1].event_id = "QUEUED_JOB"

\* C31: in every ABANDONED_JOB{DEP_FAILED}, dep_job_id is the job of the
\* FINISHED_JOB that was put last before it, which reports a failure and
\* is in completed with the value false, and direct_dep_job_id is a
\* dependency of the abandoned job that is that failed job or a job whose
\* ABANDONED_JOB{DEP_FAILED} was put earlier since that FINISHED_JOB.
C31_DepFailedIds ==
    \A i \in EventsOf("ABANDONED_JOB") :
        LET e == event_queue[i]
        IN e.reason = "DEP_FAILED" =>
              /\ \E k \in EventsOf("FINISHED_JOB") : k < i
              /\ LET f == LastFinishedBefore(i)
                 IN /\ e.ref = event_queue[f].job_id
                    /\ ~event_queue[f].succeeded
                    /\ CompletedWith(e.ref, FALSE)
                    /\ e.direct \in deps[e.job_id]
                    /\ \/ e.direct = e.ref
                       \/ \E k \in EventsOf("ABANDONED_JOB") :
                             /\ f < k /\ k < i
                             /\ event_queue[k].reason = "DEP_FAILED"
                             /\ event_queue[k].job_id = e.direct

\* a job was abandoned through a dependency that had itself been abandoned
\* just before, for the same failed job
C31_Witness ==
    \E i \in EventsOf("ABANDONED_JOB") :
        /\ i > 1
        /\ event_queue[i].reason = "DEP_FAILED"
        /\ event_queue[i - 1].reason = "DEP_FAILED"
        /\ event_queue[i].direct = event_queue[i - 1].job_id
        /\ event_queue[i - 1].direct = event_queue[i].ref


\* ------------------------------------------------ the output of a command
\* the chunks that the running stage of job j has received so far
CurrentChunks(j) ==
    Len(SelectSeq(stage_events[j],
                  LAMBDA e : /\ e.event_id \in {"STDOUT", "STDERR"}
                             /\ e.label = jk[j]))

\* IOBufferProtocol.on_stdout_received, in the protocol of the running
\* command stage of job j
on_stdout_received(j, data) ==
    /\ pc = "wait"
    /\ jst[j] = "running"
    /\ stages[j][jk[j]] = "cmd"
    /\ CurrentChunks(j) < MaxChunks
    /\ stdout_buffer' = [stdout_buffer EXCEPT ![j] = ProtocolAppend(@, data)]
    /\ interleaved_buffer' =
           [interleaved_buffer EXCEPT ![j] = ProtocolAppend(@, data)]
    /\ stage_events' =
           [stage_events EXCEPT ![j] = Append(@, StdoutEvent(j, jk[j], data))]
    /\ UNCHANGED <<inputs, observer, devel, client, job_pipe, child_tokens, pc, pending_jobs,
                   queued_jobs, active_jobs, completed_jobs, abandoned_jobs,
                   result, jst, jk, all_stages_succeeded, jresult,
                   event_queue, stderr_buffer>>

\* IOBufferProtocol.on_stderr_received
on_stderr_received(j, data) ==
    /\ pc = "wait"
    /\ jst[j] = "running"
    /\ stages[j][jk[j]] = "cmd"
    /\ CurrentChunks(j) < MaxChunks
    /\ stderr_buffer' = [stderr_buffer EXCEPT ![j] = ProtocolAppend(@, data)]
    /\ interleaved_buffer' =
           [interleaved_buffer EXCEPT ![j] = ProtocolAppend(@, data)]
    /\ stage_events' =
           [stage_events EXCEPT ![j] = Append(@, StderrEvent(j, jk[j], data))]
    /\ UNCHANGED <<inputs, observer, devel, client, job_pipe, child_tokens, pc, pending_jobs,
                   queued_jobs, active_jobs, completed_jobs, abandoned_jobs,
                   result, jst, jk, all_stages_succeeded, jresult,
                   event_queue, stdout_buffer>>

\* one job, whose stages write output
IOInit ==
    /\ jobs = <<1>>
    /\ deps = [j \in {1} |-> {}]
    /\ stages \in UniformStages(jobs, StageLists \ {<<>>})
    /\ job_cof \in {[j \in SeqToSet(jobs) |-> b] : b \in BOOLEAN}
    /\ continue_on_failure = FALSE
    /\ continue_without_deps = FALSE
    /\ max_jobs = MaxJobs
    /\ max_load = FALSE
    /\ max_mem = FALSE
    /\ gnu_make_supported = TRUE
    /\ job_pipe = InitialTokens(max_jobs)
    /\ pipe_fds = <<3, 4>>
    /\ format_exc \in Tracebacks
    /\ cpc = "idle"
    /\ ctokens = 0
    /\ cret = ""
    /\ cargs = <<>>
    /\ child_tokens = [j \in SeqToSet(jobs) |-> 0]
    /\ pc = "start"
    /\ pending_jobs = <<>>
    /\ queued_jobs = <<>>
    /\ active_jobs = {}
    /\ completed_jobs = EmptyDict
    /\ abandoned_jobs = <<>>
    /\ result = <<>>
    /\ jst = [j \in SeqToSet(jobs) |-> "idle"]
    /\ jk = [j \in SeqToSet(jobs) |-> 0]
    /\ all_stages_succeeded = [j \in SeqToSet(jobs) |-> TRUE]
    /\ jresult = [j \in SeqToSet(jobs) |-> <<>>]
    /\ event_queue = <<>>
    /\ stage_events = [j \in SeqToSet(jobs) |-> <<>>]
    /\ stdout_buffer = [j \in SeqToSet(jobs) |-> <<>>]
    /\ stderr_buffer = [j \in SeqToSet(jobs) |-> <<>>]
    /\ interleaved_buffer = [j \in SeqToSet(jobs) |-> <<>>]
    /\ keep_time = FALSE
    /\ opc = "run"
    /\ taken = [s \in {-1, 0} \cup SeqToSet(jobs) |-> 0]
    /\ active_stages = [j \in SeqToSet(jobs) |-> -1]
    /\ start_times = {}
    /\ status = NoSnap
    /\ NoDevelSpace

IONext ==
    \/ Next
    \/ \E j \in SeqToSet(jobs) : \E data \in Chunks :
            on_stdout_received(j, data)
    \/ \E j \in SeqToSet(jobs) : \E data \in Chunks :
            on_stderr_received(j, data)

IOSpec == IOInit /\ [][IONext]_vars

\* the data of the events of the given kinds of stage lbl of job j,
\* concatenated in the order in which the events were emitted
RECURSIVE Concatenated(_)
Concatenated(w) ==
    IF w = <<>> THEN <<>> ELSE Head(w).data \o Concatenated(Tail(w))

ChunkEvents(j, lbl, kinds) ==
    SelectSeq(stage_events[j],
              LAMBDA e : e.event_id \in kinds /\ e.label = lbl)

ChunkData(j, lbl, kinds) == Concatenated(ChunkEvents(j, lbl, kinds))

CmdFinished(j) ==
    {i \in StageEventsOf(j, "FINISHED_STAGE") :
        stages[j][stage_events[j][i].label] = "cmd"}

\* C32 as stated: at FINISHED_STAGE of a command stage each payload is the
\* concatenation of the data of the events of its kind
C32_AsStated ==
    \A j \in SeqToSet(jobs) : \A i \in CmdFinished(j) :
        LET e == stage_events[j][i]
        IN /\ e.stdout = ChunkData(j, e.label, {"STDOUT"})
           /\ e.stderr = ChunkData(j, e.label, {"STDERR"})
           /\ e.interleaved = ChunkData(j, e.label, {"STDOUT", "STDERR"})

\* C32: while a command stage runs, each of the three buffers is the
\* concatenation of the data of the events of its kind emitted so far (so a
\* buffer only grows by appending). At FINISHED_STAGE of a command stage the
\* stdout payload is the concatenation of the data of its STDOUT events, and
\* either the stderr and interleaved payloads are the concatenations of the
\* STDERR events and of all the events, or the stage ended with retcode 1
\* and has one event only, a STDERR event with the traceback, while the
\* stderr and interleaved payloads are the traceback right-trimmed plus a
\* newline.
C32_CaptureBuffers ==
    \A j \in SeqToSet(jobs) :
        /\ (jst[j] = "running" /\ stages[j][jk[j]] = "cmd") =>
              /\ stdout_buffer[j] = ChunkData(j, jk[j], {"STDOUT"})
              /\ stderr_buffer[j] = ChunkData(j, jk[j], {"STDERR"})
              /\ interleaved_buffer[j] =
                     ChunkData(j, jk[j], {"STDOUT", "STDERR"})
        /\ \A i \in CmdFinished(j) :
              LET e == stage_events[j][i]
                  all == ChunkEvents(j, e.label, {"STDOUT", "STDERR"})
              IN /\ e.stdout = ChunkData(j, e.label, {"STDOUT"})
                 /\ \/ /\ e.stderr = ChunkData(j, e.label, {"STDERR"})
                       /\ e.interleaved =
                              ChunkData(j, e.label, {"STDOUT", "STDERR"})
                    \/ /\ e.retcode = 1
                       /\ Len(all) = 1
                       /\ all[1].event_id = "STDERR"
                       /\ all[1].data = format_exc
                       /\ e.stderr = rstrip(format_exc) \o <<"\n">>
                       /\ e.interleaved = e.stderr

\* a command stage has finished after a chunk on stdout and a different
\* chunk on stderr
C32_Witness ==
    \E j \in SeqToSet(jobs) : \E i \in CmdFinished(j) :
        LET e == stage_events[j][i]
        IN /\ e.stdout # <<>>
           /\ e.stderr # <<>>
           /\ e.stdout # e.stderr
           /\ Len(e.interleaved) = Len(e.stdout) + Len(e.stderr)


\* --------------------------------------------- ConsoleStatusController.run
MaxObserved == 2

\* everything of clean_packages, execute_jobs and async_job
program ==
    <<inputs, client, buffers, job_pipe, child_tokens, pc, pending_jobs,
      queued_jobs, active_jobs, completed_jobs, abandoned_jobs, result, jst,
      jk, all_stages_succeeded, jresult, event_queue, stage_events>>

\* clean.py lines 197-199: KeyboardInterrupt ends run_until_complete, and
\* None is put on the Queue
Interrupt ==
    /\ pc \notin {"done", "error", "raised", "interrupted"}
    /\ pc' = "interrupted"
    /\ UNCHANGED <<inputs, observer, devel, client, buffers, job_pipe, child_tokens,
                   pending_jobs, queued_jobs, active_jobs, completed_jobs,
                   abandoned_jobs, result, jst, jk, all_stages_succeeded,
                   jresult, event_queue, stage_events>>

\* The producers of the Queue: the scheduler (0), the runtime of each job,
\* and clean_packages (-1), which puts None.
Producers == {-1, 0} \cup SeqToSet(jobs)

None == [event_id |-> "None", time |-> Puts]

\* the items a producer has put so far, in the order of its puts
Stream(s) ==
    CASE s = -1 -> IF pc = "interrupted" THEN <<None>> ELSE <<>>
      [] s = 0 -> event_queue
      [] OTHER -> stage_events[s]

\* the producers with an item that the observer has not got yet
Waiting == {s \in Producers : taken[s] < Len(Stream(s))}

Front(s) == Stream(s)[taken[s] + 1]

\* the producer of the item at the front of the Queue
FrontProducer ==
    CHOOSE s \in Waiting : \A t \in Waiting : Front(s).time <= Front(t).time

\* faulty variant of all_finished: the active list is not looked at
all_finishedButActive(data) ==
    /\ Len(data.pending) = 0
    /\ Len(data.queued) = 0

\* line 241: all([len(event.data[t]) == 0 for t in ['pending', 'queued',
\* 'active']])
all_finished(data) ==
    /\ Len(data.pending) = 0
    /\ Len(data.queued) = 0
    /\ Cardinality(data.active) = 0

\* lines 191-363: one turn of the loop of run that gets an item from the
\* Queue and handles it; "done" is the loop left and the summary of lines
\* 365-400 printed, "crashed" a KeyError that ends the thread
ObserverGet ==
    /\ opc = "run"
    /\ Waiting # {}
    /\ LET s == FrontProducer
           event == Front(s)
           eid == event.event_id
       IN /\ taken' = [taken EXCEPT ![s] = @ + 1]
          /\ opc' = CASE eid = "None" -> "done"
                      [] eid = "JOB_STATUS" /\ all_finished(event.snap) -> "done"
                      [] eid = "FINISHED_JOB"
                            /\ event.job_id \notin start_times -> "crashed"
                      [] eid = "FINISHED_STAGE"
                            /\ active_stages[event.job_id] = -1 -> "crashed"
                      [] OTHER -> "run"
          /\ status' = IF eid = "JOB_STATUS" THEN event.snap ELSE status
          /\ start_times' = IF eid = "STARTED_JOB"
                            THEN start_times \cup {event.job_id}
                            ELSE start_times
          /\ active_stages' =
                CASE eid = "STARTED_STAGE" ->
                        [active_stages EXCEPT ![event.job_id] = event.label]
                  [] eid = "FINISHED_STAGE" ->
                        [active_stages EXCEPT ![event.job_id] = -1]
                  [] OTHER -> active_stages
    /\ UNCHANGED <<program, devel>>

\* lines 193-218, with the show_active_status=True that clean_packages
\* leaves as the default: the Queue is empty and the status line is
\* printed; JobServer.max_jobs() (line 205) reads max_jobs of the
\* singleton, which is None without make support: AttributeError
ObserverStatusLine ==
    /\ opc = "run"
    /\ Waiting = {}
    /\ opc' = IF gnu_make_supported THEN "run" ELSE "crashed"
    /\ UNCHANGED <<program, devel, taken, active_stages, start_times, status>>

\* clean_packages (lines 175-199) with a few jobs: JobServer.initialize()
\* has been called, the observer thread started, execute_jobs is about to
\* run. (With no job at all the constructor of the observer raises
\* ValueError at controllers.py line 170, and nothing is started.)
ObserverInit ==
    /\ jobs \in {js \in JobLists : Len(js) \in 1..MaxObserved}
    /\ deps \in DepsOf(jobs)
    /\ stages \in UniformStages(jobs, ShortLists)
    /\ job_cof = [j \in SeqToSet(jobs) |-> TRUE]
    /\ continue_on_failure \in BOOLEAN
    /\ continue_without_deps = FALSE
    /\ max_jobs = MaxJobs
    /\ max_load = FALSE
    /\ max_mem = FALSE
    /\ gnu_make_supported \in BOOLEAN
    /\ job_pipe = (IF gnu_make_supported THEN InitialTokens(max_jobs) ELSE 0)
    /\ pipe_fds = <<3, 4>>
    /\ format_exc = <<"E", "\n">>
    /\ cpc = "idle"
    /\ ctokens = 0
    /\ cret = ""
    /\ cargs = <<>>
    /\ child_tokens = [j \in SeqToSet(jobs) |-> 0]
    /\ pc = "start"
    /\ pending_jobs = <<>>
    /\ queued_jobs = <<>>
    /\ active_jobs = {}
    /\ completed_jobs = EmptyDict
    /\ abandoned_jobs = <<>>
    /\ result = <<>>
    /\ jst = [j \in SeqToSet(jobs) |-> "idle"]
    /\ jk = [j \in SeqToSet(jobs) |-> 0]
    /\ all_stages_succeeded = [j \in SeqToSet(jobs) |-> TRUE]
    /\ jresult = [j \in SeqToSet(jobs) |-> <<>>]
    /\ event_queue = <<>>
    /\ stage_events = [j \in SeqToSet(jobs) |-> <<>>]
    /\ stdout_buffer = [j \in SeqToSet(jobs) |-> <<>>]
    /\ stderr_buffer = [j \in SeqToSet(jobs) |-> <<>>]
    /\ interleaved_buffer = [j \in SeqToSet(jobs) |-> <<>>]
    /\ keep_time = TRUE
    /\ opc = "run"
    /\ taken = [s \in {-1, 0} \cup SeqToSet(jobs) |-> 0]
    /\ active_stages = [j \in SeqToSet(jobs) |-> -1]
    /\ start_times = {}
    /\ status = NoSnap
    /\ NoDevelSpace

ObserverNext ==
    \/ Next
    \/ Interrupt
    \/ ObserverGet
    \/ ObserverStatusLine

ObserverSpec == ObserverInit /\ [][ObserverNext]_vars

\* a JOB_STATUS whose pending, queued and active lists are all empty
IsLastStatus(e) ==
    /\ e.event_id = "JOB_STATUS"
    /\ e.snap.pending = <<>>
    /\ e.snap.queued = <<>>
    /\ e.snap.active = {}

C34_ObserverEnds ==
    (pc \in {"done", "error", "raised", "interrupted"} /\ Waiting = {}) =>
        opc = "done"

\* C35 as stated: every job has at most one STARTED_JOB, a started job is
\* never abandoned, and once execute_jobs has returned every job has
\* exactly one terminal event, FINISHED_JOB for a started job.
C35_OneTerminalEvent ==
    \A j \in SeqToSet(jobs) :
        LET started == JobEventsOf("STARTED_JOB", j)
            finished == JobEventsOf("FINISHED_JOB", j)
            abandoned == JobEventsOf("ABANDONED_JOB", j)
        IN /\ Cardinality(started) <= 1
           /\ started # {} => abandoned = {}
           /\ finished # {} => started # {}
           /\ pc = "done" =>
                 /\ Cardinality(finished) + Cardinality(abandoned) = 1
                 /\ started # {} => Cardinality(finished) = 1

\* execute_jobs has returned, one job was abandoned because of the failure
\* of a job that ran together with a third one
C35_Witness ==
    /\ pc = "done"
    /\ \E a, b, c \in SeqToSet(jobs) :
          /\ a # b /\ b # c /\ a # c
          /\ JobEventsOf("ABANDONED_JOB", a) # {}
          /\ JobEventsOf("FINISHED_JOB", b) # {}
          /\ ~completed_jobs[b]
          /\ JobEventsOf("FINISHED_JOB", c) # {}

\* C36: unless continue_on_failure and continue_without_deps are both
\* true, no job with a STARTED_JOB event has a dependency that has completed
\* with succeeded = false.
C36_NoStartAfterFailedDep ==
    ~(continue_on_failure /\ continue_without_deps) =>
        \A i \in EventsOf("STARTED_JOB") :
            \A d \in deps[event_queue[i].job_id] : ~CompletedWith(d, FALSE)

\* the two flags are not both true, a job has failed, a job that depends on
\* it has been abandoned and another job has been started after the failure
C36_Witness ==
    /\ ~(continue_on_failure /\ continue_without_deps)
    /\ \E d, j \in SeqToSet(jobs) :
          /\ d \in deps[j]
          /\ CompletedWith(d, FALSE)
          /\ JobEventsOf("ABANDONED_JOB", j) # {}
          /\ \E f \in JobEventsOf("FINISHED_JOB", d) :
                \E i \in EventsOf("STARTED_JOB") : f < i

\* a step in which the scheduler takes a token from the pipe: the pipe loses
\* a byte that no child make has taken
SchedulerTakes ==
    /\ job_pipe' < job_pipe
    /\ child_tokens' = child_tokens

\* C37: the scheduler is about to read the pipe in try_acquire only while
\* queued_jobs is not empty, and the step in which it takes a token also
\* pops the head of queued_jobs, makes it active and emits its STARTED_JOB
\* as the next event; no other step of the scheduler takes a token.
C37_TokenOnlyToStart ==
    [][/\ pc' = "read" => queued_jobs' # <<>>
       /\ SchedulerTakes =>
             /\ queued_jobs # <<>>
             /\ queued_jobs' = Tail(queued_jobs)
             /\ active_jobs' = active_jobs \cup {Head(queued_jobs)}
             /\ Len(event_queue') > Len(event_queue)
             /\ LET e == event_queue'[Len(event_queue) + 1]
                IN /\ e.event_id = "STARTED_JOB"
                   /\ e.job_id = Head(queued_jobs)]_vars

\* the scheduler has taken a second token while a child make holds one, and
\* jobs are still queued
C37_Witness ==
    /\ Cardinality(EventsOf("STARTED_JOB")) = 2
    /\ \E j \in SeqToSet(jobs) : child_tokens[j] > 0
    /\ queued_jobs # <<>>

\* C38: once the observer has handled the FINISHED_JOB of a job, its
\* active_stages has no entry for that job.
C38_NoActiveStage ==
    \A j \in SeqToSet(jobs) :
        (\E i \in 1..taken[0] : /\ event_queue[i].event_id = "FINISHED_JOB"
                                /\ event_queue[i].job_id = j)
            => active_stages[j] = -1

\* ------------------------------------------------- jobs/catkin.py: symlinks
MaxPkgs == 2
MaxFiles == 2
MaxCollisions == 3

Pkgs == 1..MaxPkgs
DevelFiles == 1..MaxFiles

\* no run of execute_jobs and no observer
NoRun ==
    /\ jobs = <<>>
    /\ deps = <<>>
    /\ stages = <<>>
    /\ job_cof = <<>>
    /\ continue_on_failure = FALSE
    /\ continue_without_deps = FALSE
    /\ max_jobs = 1
    /\ max_load = FALSE
    /\ max_mem = FALSE
    /\ gnu_make_supported = TRUE
    /\ job_pipe = InitialTokens(max_jobs)
    /\ pipe_fds = <<3, 4>>
    /\ format_exc = <<"E", "\n">>
    /\ cpc = "idle"
    /\ ctokens = 0
    /\ cret = ""
    /\ cargs = <<>>
    /\ child_tokens = <<>>
    /\ pc = "idle"
    /\ pending_jobs = <<>>
    /\ queued_jobs = <<>>
    /\ active_jobs = {}
    /\ completed_jobs = EmptyDict
    /\ abandoned_jobs = <<>>
    /\ result = <<>>
    /\ jst = <<>>
    /\ jk = <<>>
    /\ all_stages_succeeded = <<>>
    /\ jresult = <<>>
    /\ event_queue = <<>>
    /\ stage_events = <<>>
    /\ stdout_buffer = <<>>
    /\ stderr_buffer = <<>>
    /\ interleaved_buffer = <<>>
    /\ keep_time = FALSE
    /\ opc = "run"
    /\ taken = [s \in {-1, 0} |-> 0]
    /\ active_stages = <<>>
    /\ start_times = {}
    /\ status = NoSnap

NoManifest == [exists |-> FALSE, files |-> {}]

\* os.path.exists(dest_file): the sources of the symlinks are never removed
\* here, so no symlink dangles
DestExists(f) == dest_files[f] # 0

\* lines 254-259: a row is added, or its count incremented, for each file
\* that collides
WithCollisions(collisions, files_that_collide) ==
    [f \in DevelFiles |->
        IF f \in files_that_collide THEN collisions[f] + 1 ELSE collisions[f]]

\* lines 241-299, clean_linked_files: the state of the symlinks and of the
\* collisions file after the call
clean_linked_files(files, collisions, files_that_collide, files_to_clean) ==
    LET dest == WithCollisions(collisions, files_that_collide)
    IN [files |-> [f \in DevelFiles |->
                      IF f \in files_to_clean /\ dest[f] = 0
                      THEN 0 ELSE files[f]],
        collisions |-> [f \in DevelFiles |->
                           IF f \in files_to_clean /\ dest[f] >= 1
                           THEN dest[f] - 1 ELSE dest[f]]]

\* lines 347-440
link_devel_products(p) ==
    /\ \A f \in DevelFiles : dest_collisions[f] < MaxCollisions
    /\ LET products == linked_devel[p]
           files_that_collide ==
               {f \in products : DestExists(f) /\ dest_files[f] # p}
           linked == [f \in DevelFiles |->
                         IF f \in products /\ ~DestExists(f)
                         THEN p ELSE dest_files[f]]
           files_to_clean ==
               IF devel_manifest[p].exists
               THEN devel_manifest[p].files \ products ELSE {}
           r == clean_linked_files(linked, dest_collisions,
                                   files_that_collide, files_to_clean)
       IN /\ dest_files' = r.files
          /\ dest_collisions' = r.collisions
          /\ devel_manifest' = [devel_manifest EXCEPT
                                   ![p] = [exists |-> TRUE, files |-> products]]
    /\ last_call' = [last_call EXCEPT ![p] = "link"]
    /\ UNCHANGED <<program, observer, dot_catkin, linked_devel>>

\* lines 302-344
unlink_devel_products(p) ==
    /\ IF ~devel_manifest[p].exists THEN
           UNCHANGED <<dest_files, dest_collisions>>
       ELSE
           LET files_to_clean ==
                   {f \in devel_manifest[p].files : DestExists(f)}
               r == clean_linked_files(dest_files, dest_collisions, {},
                                       files_to_clean)
           IN /\ dest_files' = r.files
              /\ dest_collisions' = r.collisions
    /\ last_call' = [last_call EXCEPT ![p] = "unlink"]
    /\ UNCHANGED <<program, observer, dot_catkin, linked_devel,
                   devel_manifest>>

\* a few packages have been built into their linked devel spaces, the merged
\* devel space is empty
SymlinkInit ==
    /\ NoRun
    /\ NoThreads
    /\ linked_devel \in [Pkgs -> SUBSET DevelFiles]
    /\ devel_manifest = [p \in Pkgs |-> NoManifest]
    /\ dest_files = [f \in DevelFiles |-> 0]
    /\ dest_collisions = [f \in DevelFiles |-> 0]
    /\ last_call = [p \in Pkgs |-> "none"]

SymlinkNext ==
    \/ \E p \in Pkgs : link_devel_products(p)
    \/ \E p \in Pkgs : unlink_devel_products(p)

SymlinkSpec == SymlinkInit /\ [][SymlinkNext]_vars

\* the packages that have produced the destination file f
ProducersOf(f) ==
    {p \in Pkgs : devel_manifest[p].exists /\ f \in devel_manifest[p].files}

\* C39: when every package that has produced a destination file has been
\* unlinked since it was last linked, the symlink of the file is removed
\* and the collisions file has no row for it.
C39_AllUnlinkedRemoved ==
    \A f \in DevelFiles :
        (/\ ProducersOf(f) # {}
         /\ \A p \in ProducersOf(f) : last_call[p] = "unlink")
            => dest_files[f] = 0 /\ dest_collisions[f] = 0

\* ------------------------------------------ jobs/catkin.py: the .catkin file
MaxThreads == 3

Threads == 1..MaxThreads

\* package source paths; a path is the sequence of its characters
SourcePaths == {<<"a">>, <<"b">>, <<"a", "b">>}

\* the positions of sep in text
Positions(text, sep) == {i \in DOMAIN text : text[i] = sep}

\* str.split(sep), for a separator of one character
RECURSIVE str_split(_, _)
str_split(text, sep) ==
    IF Positions(text, sep) = {} THEN <<text>>
    ELSE LET i == CHOOSE k \in Positions(text, sep) :
                      \A m \in Positions(text, sep) : k <= m
         IN <<SubSeq(text, 1, i - 1)>>
                \o str_split(SubSeq(text, i + 1, Len(text)), sep)

\* faulty variant of LockFree: the lock excludes nobody
LockFreeAlways(lock) == TRUE

\* threading.Lock: acquire returns when nobody holds the lock
LockFree(lock) == lock = 0

\* line 145: with dot_catkin_file_lock
AppendAcquire(t) ==
    /\ tpc[t] = "call"
    /\ LockFree(dot_catkin_file_lock)
    /\ dot_catkin_file_lock' = t
    /\ tpc' = [tpc EXCEPT ![t] = "exists"]
    /\ UNCHANGED <<program, observer, symlinks, dot_catkin_file,
                   package_source_abs, dot_catkin_paths>>

\* lines 146-149: the devel space is made, and the file looked for
AppendExists(t) ==
    /\ tpc[t] = "exists"
    /\ tpc' = [tpc EXCEPT ![t] = IF dot_catkin_file.exists
                                 THEN "read" ELSE "create"]
    /\ UNCHANGED <<program, observer, symlinks, dot_catkin_file,
                   dot_catkin_file_lock, package_source_abs,
                   dot_catkin_paths>>

\* lines 150-152: the file is read and split, and the path looked for
AppendRead(t) ==
    /\ tpc[t] = "read"
    /\ LET paths == str_split(dot_catkin_file.text, ";")
       IN /\ dot_catkin_paths' = [dot_catkin_paths EXCEPT ![t] = paths]
          /\ tpc' = [tpc EXCEPT
                        ![t] = IF \E i \in DOMAIN paths :
                                      paths[i] = package_source_abs[t]
                               THEN "release" ELSE "append"]
    /\ UNCHANGED <<program, observer, symlinks, dot_catkin_file,
                   dot_catkin_file_lock, package_source_abs>>

\* lines 153-154: open(..., 'ab') writes at the end of the file as it is
AppendWrite(t) ==
    /\ tpc[t] = "append"
    /\ dot_catkin_file' =
           [exists |-> TRUE,
            text |-> dot_catkin_file.text \o <<";">> \o package_source_abs[t]]
    /\ tpc' = [tpc EXCEPT ![t] = "release"]
    /\ UNCHANGED <<program, observer, symlinks, dot_catkin_file_lock,
                   package_source_abs, dot_catkin_paths>>

\* lines 156-157: open(..., 'w+') truncates the file
AppendCreate(t) ==
    /\ tpc[t] = "create"
    /\ dot_catkin_file' = [exists |-> TRUE, text |-> package_source_abs[t]]
    /\ tpc' = [tpc EXCEPT ![t] = "release"]
    /\ UNCHANGED <<program, observer, symlinks, dot_catkin_file_lock,
                   package_source_abs, dot_catkin_paths>>

\* the with block is left, line 158
AppendRelease(t) ==
    /\ tpc[t] = "release"
    /\ dot_catkin_file_lock' = 0
    /\ tpc' = [tpc EXCEPT ![t] = "done"]
    /\ UNCHANGED <<program, observer, symlinks, dot_catkin_file,
                   package_source_abs, dot_catkin_paths>>

\* the 'register' stages of a few jobs are about to run on the thread pool;
\* the .catkin file is missing, empty, or lists a package
DotCatkinInit ==
    /\ NoRun
    /\ NoPackages
    /\ dot_catkin_file \in {[exists |-> FALSE, text |-> <<>>],
                            [exists |-> TRUE, text |-> <<>>],
                            [exists |-> TRUE, text |-> <<"a">>]}
    /\ dot_catkin_file_lock = 0
    /\ package_source_abs \in [Threads -> SourcePaths]
    /\ tpc = [t \in Threads |-> "call"]
    /\ dot_catkin_paths = [t \in Threads |-> <<>>]

DotCatkinNext ==
    \/ \E t \in Threads : AppendAcquire(t)
    \/ \E t \in Threads : AppendExists(t)
    \/ \E t \in Threads : AppendRead(t)
    \/ \E t \in Threads : AppendWrite(t)
    \/ \E t \in Threads : AppendCreate(t)
    \/ \E t \in Threads : AppendRelease(t)

DotCatkinSpec == DotCatkinInit /\ [][DotCatkinNext]_vars

\* how many of the paths listed in the .catkin file are the path p
Listed(p) ==
    LET paths == str_split(dot_catkin_file.text, ";")
    IN Cardinality({i \in DOMAIN paths : paths[i] = p})

\* C40: whatever the interleaving, the path of every call that has returned
\* is listed in the .catkin file exactly once, and no path is ever listed
\* twice.
C40_EachPathOnce ==
    /\ \A t \in Threads :
          tpc[t] = "done" =>
              /\ dot_catkin_file.exists
              /\ Listed(package_source_abs[t]) = 1
    /\ \A p \in SourcePaths : Listed(p) <= 1

\* all the calls have returned, two of them were for the same path, and the
\* file lists two paths or more
C40_Witness ==
    /\ \A t \in Threads : tpc[t] = "done"
    /\ \E t, u \in Threads :
          t # u /\ package_source_abs[t] = package_source_abs[u]
    /\ \E p, q \in SourcePaths : p # q /\ Listed(p) = 1 /\ Listed(q) = 1

====
